---- MODULE Spec2Model ----
(***************************************************************************)
(* A model of devdash-core: the event bus (event.rs), the widget container *)
(* (widget.rs), the widget registry (registry.rs) and the layout engine    *)
(* (layout.rs).  Each subsystem has its own specification over its own     *)
(* group of variables; the other groups are left unchanged by it.          *)
(***************************************************************************)
EXTENDS Integers, Sequences, FiniteSets, TLC

VARIABLES
    \* ---- event bus (event.rs) ----
    subscriptions,  \* EventBusInner.subscriptions: id -> pattern (the Sender lives in the entry)
    next_id,        \* EventBusInner.next_id
    pending,        \* subscribe calls between fetch_add and the insert: set of [id, pattern]
    tokens,         \* ids of the Subscription tokens callers hold (not yet dropped)
    rx_held,        \* ids of the Receivers callers hold (not yet dropped)
    chan,           \* id -> the queue of the channel created for that subscribe call
    received,       \* id -> the events the receiver has taken out, in order
    last_recv,      \* id -> outcome of the receiver's latest try_recv: << >> (none yet),
                    \* <<"Ok", event>>, <<"Empty">> or <<"Disconnected">>
    readers,        \* publishers holding the read lock of the table
    pub_pc,         \* publisher -> "idle" | "loop"
    pub_event,      \* publisher -> the event of its current publish call (None outside one)
    pub_snap,       \* publisher -> the table as it was when the read lock was taken
    pub_todo,       \* publisher -> ids of the table the loop has still to visit
    pub_count,      \* number of publish calls begun so far
    \* ---- topic_matches as a pure function ----
    m_topic, m_pattern,   \* the arguments
    m_result,             \* << >> before the call, <<the value returned>> after it
    \* ---- one WidgetContainer and the clock (widget.rs) ----
    c_clock,        \* Instant::now()
    c_mounted,      \* WidgetContainer.mounted
    c_last_update,  \* WidgetContainer.last_update
    c_hooks,        \* the hooks invoked on the widget, in order: <<"on_mount">>,
                    \* <<"on_unmount">>, <<"on_update", delta>>
    c_calls,        \* the calls made on the container, in order: <<"new", now>>, <<"mount">>,
                    \* <<"unmount">>, <<"update", now, what needs_update() returned>>
    \* ---- one WidgetRegistry (registry.rs) ----
    r_factories,    \* WidgetRegistry.factories: name -> factory
    r_widgets,      \* WidgetRegistry.widgets: name -> pre-built instance
    r_made,         \* number of widget instances built so far (names the next one)
    r_log,          \* the create calls made, in order: [name, result]
    \* ---- Layout::calculate as a pure function (layout.rs) ----
    l_layout,       \* self
    l_area,         \* area
    l_result,       \* << >> before the call; <<"Ok", the rectangles returned>>, or
                    \* <<"Panic">> (arithmetic overflow in a build that checks it)
    l_splits,       \* the split_horizontal/split_vertical calls of the run, in call order:
                    \* [dir, area, items, rects]
    \* ---- the host and its plugins (plugin.rs, main.rs) ----
    p_phase,        \* "boot", "start" (manager made), "loaded" (after load_all),
                    \* "running" (main loop), "down", "panicked"
    p_watcher,      \* PluginManager.watcher and rx: "none" (no manager yet), "live", or
                    \* "disabled" (the stand-in watcher, whose events go nowhere)
    p_config,       \* the widget names of the active layout's leaves, depth-first
    p_dir,          \* the entries read_dir yields for the plugin directory, in its order
    p_loaded,       \* what load_all returned: << >>, <<"Ok", [name, widget]s>> or <<"Err">>
    p_attempted,    \* the load_plugin calls of load_all, in order: [i, id, result] for
                    \* entry p_dir[i], the library opened (0: none) and what it returned
    p_plugins,      \* PluginManager.plugins: the names in the bookkeeping map
    p_registry,     \* WidgetRegistry.widgets: name -> the pre-built plugin widget
    p_widgets,      \* main's widgets: the live list of containers [name, mounted, widget]
    p_next,         \* the number of libraries opened so far (the next one is p_next + 1)
    p_created,      \* the handles the plugins' create entry points returned
    p_destroyed,    \* handle -> how many times it was passed to destroy
    p_mounted,      \* handle -> how many times that instance's on_mount hook ran
    p_op,           \* the last operation: [op, stem, lib, idx, result]
    p_trace,        \* the events of the last operation, in order: <<what, handle or library>>
    p_reloads,      \* watcher events and Ctrl+R presses handled so far
    p_file,         \* for each library opened so far, the stem of the file it was opened from
    \* ---- one PluginWidget and the instance behind its handle (plugin.rs) ----
    w_inst,         \* the plugin's widget: what its preferred_size, needs_update and
                    \* on_event return
    w_call,         \* the calls made on the wrapper, in order
    w_seen,         \* the calls the instance received, in order
    w_ret,          \* what the latest call on the wrapper returned
    \* ---- the main loop (main.rs) ----
    f_pc,           \* "loop", "quit" (left by break) or "panicked"
    f_widgets,      \* widgets.len()
    f_focused,      \* focused_widget
    f_elapsed,      \* last_tick.elapsed(), in time units, at the top of the loop
    f_key,          \* what the latest iteration read from the terminal
    f_steps,        \* the steps of the latest iteration, in order
    \* ---- a dashboard's layout, from the configuration to the runtime tree (config.rs) ----
    g_config,       \* dashboard.layout, the ConfigLayout read from the file
    g_flat,         \* what flatten_layout_items returned, once it has
    g_layout        \* what to_layout returned, once it has

busVars == <<subscriptions, next_id, pending, tokens, rx_held, chan, received,
             last_recv, readers, pub_pc, pub_event, pub_snap, pub_todo, pub_count>>
matchVars == <<m_topic, m_pattern, m_result>>

contVars == <<c_clock, c_mounted, c_last_update, c_hooks, c_calls>>
regVars == <<r_factories, r_widgets, r_made, r_log>>
layVars == <<l_layout, l_area, l_result, l_splits>>
appVars == <<p_phase, p_watcher, p_config, p_dir, p_loaded, p_attempted, p_plugins, p_registry, p_widgets,
             p_next, p_created, p_destroyed, p_mounted, p_op, p_trace, p_reloads,
             p_file>>

wrapVars == <<w_inst, w_call, w_seen, w_ret>>
loopVars == <<f_pc, f_widgets, f_focused, f_elapsed, f_key, f_steps>>

vars == <<busVars, matchVars, contVars, regVars, layVars, appVars, wrapVars, loopVars,
             g_config, g_flat, g_layout>>
\* What the actions of one subsystem leave alone.
nonBusVars == <<matchVars, contVars, regVars, layVars, appVars, wrapVars, loopVars,
             g_config, g_flat, g_layout>>
nonMatchVars == <<busVars, contVars, regVars, layVars, appVars, wrapVars, loopVars,
             g_config, g_flat, g_layout>>
nonContVars == <<busVars, matchVars, regVars, layVars, appVars, wrapVars, loopVars,
             g_config, g_flat, g_layout>>
nonRegVars == <<busVars, matchVars, contVars, layVars, appVars, wrapVars, loopVars,
             g_config, g_flat, g_layout>>
nonLayVars == <<busVars, matchVars, contVars, regVars, appVars, wrapVars, loopVars,
             g_config, g_flat, g_layout>>
nonAppVars == <<busVars, matchVars, contVars, regVars, layVars, wrapVars, loopVars,
             g_config, g_flat, g_layout>>
nonWrapVars == <<busVars, matchVars, contVars, regVars, layVars, appVars, loopVars,
             g_config, g_flat, g_layout>>
nonLoopVars == <<busVars, matchVars, contVars, regVars, layVars, appVars, wrapVars,
             g_config, g_flat, g_layout>>

None == "none"

(***************************************************************************)
(* Strings are sequences of characters; a topic is a string.               *)
(***************************************************************************)
RECURSIVE Split(_)
\* str::split('.'): the segments between the dots; "" has the one segment "".
Split(s) ==
    IF s = <<>> THEN << <<>> >>
    ELSE LET rest == Split(Tail(s)) IN
         IF Head(s) = "." THEN << <<>> >> \o rest
         ELSE << <<Head(s)>> \o Head(rest) >> \o Tail(rest)

RECURSIVE MatchFromStarLiteral(_, _, _)
\* A variant of the loop that compares a `*` before the last segment as a literal.
MatchFromStarLiteral(topic_parts, pattern_parts, i) ==
    IF i > Len(pattern_parts) THEN Len(pattern_parts) = Len(topic_parts)
    ELSE IF pattern_parts[i] = <<"*">> /\ i = Len(pattern_parts) THEN TRUE
         ELSE IF i > Len(topic_parts) \/ topic_parts[i] # pattern_parts[i] THEN FALSE
              ELSE MatchFromStarLiteral(topic_parts, pattern_parts, i + 1)

RECURSIVE MatchFrom(_, _, _)
\* The for loop of topic_matches from index i (1-based) on, and the final comparison.
MatchFrom(topic_parts, pattern_parts, i) ==
    IF i > Len(pattern_parts) THEN Len(pattern_parts) = Len(topic_parts)
    ELSE IF pattern_parts[i] = <<"*">>
         THEN IF i = Len(pattern_parts) THEN TRUE
              ELSE MatchFrom(topic_parts, pattern_parts, i + 1)
         ELSE IF i > Len(topic_parts) \/ topic_parts[i] # pattern_parts[i] THEN FALSE
              ELSE MatchFrom(topic_parts, pattern_parts, i + 1)

\* topic_matches without the segment-count test of lines 125-127.
topic_matches_no_count_test(topic, pattern) ==
    IF topic = pattern THEN TRUE
    ELSE MatchFrom(Split(topic), Split(pattern), 1)

topic_matches(topic, pattern) ==
    IF topic = pattern THEN TRUE
    ELSE LET topic_parts == Split(topic)
             pattern_parts == Split(pattern)
         IN  IF Len(pattern_parts) > Len(topic_parts) THEN FALSE
             ELSE MatchFrom(topic_parts, pattern_parts, 1)

(***************************************************************************)
(* Event bus                                                               *)
(***************************************************************************)
MaxSubs == 2        \* subscribe calls in a run
MaxPublish == 3     \* publish calls in a run, all publishers together
Publishers == {"p1", "p2"}

BusTopics == { <<"a", ".", "b">> }
BusPatterns == { <<"a">>, <<"a", ".", "*">> }

\* Event::clone: the topic String is copied, the payload Arc is shared.
CloneEvent(e) == [topic |-> e.topic, payload |-> e.payload]

\* crossbeam Sender::send on an unbounded channel: appends while a Receiver exists,
\* Err(SendError) (nothing queued) once the Receiver is dropped.
SendLifo(q, e, rx_alive) == IF rx_alive THEN <<e>> \o q ELSE q
Send(q, e, rx_alive) == IF rx_alive THEN Append(q, e) ELSE q

BusInit ==
    /\ subscriptions = << >>
    /\ next_id = 0
    /\ pending = {}
    /\ tokens = {}
    /\ rx_held = {}
    /\ chan = << >>
    /\ received = << >>
    /\ last_recv = << >>
    /\ readers = {}
    /\ pub_pc = [p \in Publishers |-> "idle"]
    /\ pub_event = [p \in Publishers |-> None]
    /\ pub_snap = [p \in Publishers |-> << >>]
    /\ pub_todo = [p \in Publishers |-> {}]
    /\ pub_count = 0

\* A variant of subscribe that draws the id of the latest call again.
SubscribeBeginReusesId(pattern) ==
    /\ next_id < MaxSubs
    /\ LET id == IF next_id > 0 THEN next_id - 1 ELSE 0
       IN  /\ pending' = pending \cup {[id |-> id, pattern |-> pattern]}
           /\ chan' = (id :> << >>) @@ chan
           /\ received' = (id :> << >>) @@ received
           /\ last_recv' = (id :> << >>) @@ last_recv
    /\ next_id' = next_id + 1
    /\ UNCHANGED <<subscriptions, tokens, rx_held, readers,
                   pub_pc, pub_event, pub_snap, pub_todo, pub_count>>
    /\ UNCHANGED nonBusVars

\* subscribe, lines 93-99: the channel is created and the id drawn (fetch_add).
SubscribeBegin(pattern) ==
    /\ next_id < MaxSubs
    /\ pending' = pending \cup {[id |-> next_id, pattern |-> pattern]}
    /\ chan' = (next_id :> << >>) @@ chan
    /\ received' = (next_id :> << >>) @@ received
    /\ last_recv' = (next_id :> << >>) @@ last_recv
    /\ next_id' = next_id + 1
    /\ UNCHANGED <<subscriptions, tokens, rx_held, readers,
                   pub_pc, pub_event, pub_snap, pub_todo, pub_count>>
    /\ UNCHANGED nonBusVars

\* subscribe, lines 101-111: the insert under the write lock, then the token and the
\* receiver are handed to the caller.
SubscribeInsert(s) ==
    /\ s \in pending
    /\ readers = {}
    /\ subscriptions' = (s.id :> s.pattern) @@ subscriptions
    /\ pending' = pending \ {s}
    /\ tokens' = tokens \cup {s.id}
    /\ rx_held' = rx_held \cup {s.id}
    /\ UNCHANGED <<next_id, chan, received, last_recv, readers,
                   pub_pc, pub_event, pub_snap, pub_todo, pub_count>>
    /\ UNCHANGED nonBusVars

Without(f, k) == [x \in DOMAIN f \ {k} |-> f[x]]

\* impl Drop for Subscription: the entry (and with it the Sender) is removed under
\* the write lock.
DropSubscriptionKeepEntry(id) ==
    /\ id \in tokens
    /\ readers = {}
    /\ tokens' = tokens \ {id}
    /\ UNCHANGED <<subscriptions, next_id, pending, rx_held, chan, received, last_recv,
                   readers, pub_pc, pub_event, pub_snap, pub_todo, pub_count>>
    /\ UNCHANGED nonBusVars

DropSubscription(id) ==
    /\ id \in tokens
    /\ readers = {}
    /\ subscriptions' = Without(subscriptions, id)
    /\ tokens' = tokens \ {id}
    /\ UNCHANGED <<next_id, pending, rx_held, chan, received, last_recv, readers,
                   pub_pc, pub_event, pub_snap, pub_todo, pub_count>>
    /\ UNCHANGED nonBusVars

\* The caller drops the Receiver it got from subscribe (widgets do: `let (sub, _rx)`).
DropReceiver(id) ==
    /\ id \in rx_held
    /\ rx_held' = rx_held \ {id}
    /\ UNCHANGED <<subscriptions, next_id, pending, tokens, chan, received, last_recv,
                   readers, pub_pc, pub_event, pub_snap, pub_todo, pub_count>>
    /\ UNCHANGED nonBusVars

\* Receiver::try_recv: the oldest queued event; Empty while a Sender exists;
\* Disconnected once the queue is drained and the Sender is gone.
TryRecv(id) ==
    /\ id \in rx_held
    /\ IF chan[id] # << >>
       THEN /\ received' = [received EXCEPT ![id] = Append(@, Head(chan[id]))]
            /\ last_recv' = [last_recv EXCEPT ![id] = <<"Ok", Head(chan[id])>>]
            /\ chan' = [chan EXCEPT ![id] = Tail(@)]
       ELSE /\ last_recv' = [last_recv EXCEPT ![id] =
                                IF id \in DOMAIN subscriptions THEN <<"Empty">> ELSE <<"Disconnected">>]
            /\ UNCHANGED <<chan, received>>
    /\ UNCHANGED <<subscriptions, next_id, pending, tokens, rx_held, readers,
                   pub_pc, pub_event, pub_snap, pub_todo, pub_count>>
    /\ UNCHANGED nonBusVars

\* publish, line 80: the read lock is taken (a writer holds the lock only within one
\* step, so the lock is free of writers here).
PublishBegin(p, topic) ==
    /\ pub_pc[p] = "idle"
    /\ pub_count < MaxPublish
    /\ readers' = readers \cup {p}
    /\ pub_pc' = [pub_pc EXCEPT ![p] = "loop"]
    /\ pub_count' = pub_count + 1
    /\ pub_event' = [pub_event EXCEPT ![p] =
                        [topic |-> topic, payload |-> <<p, pub_count + 1>>]]
    /\ pub_snap' = [pub_snap EXCEPT ![p] = subscriptions]
    /\ pub_todo' = [pub_todo EXCEPT ![p] = DOMAIN subscriptions]
    /\ UNCHANGED <<subscriptions, next_id, pending, tokens, rx_held, chan, received, last_recv>>
    /\ UNCHANGED nonBusVars

\* publish, lines 82-87: one iteration of the loop over subs.values() (a HashMap:
\* any order); a failed send is ignored.
PublishStepStopOnError(p, id) ==
    /\ pub_pc[p] = "loop"
    /\ id \in pub_todo[p]
    /\ IF topic_matches(pub_event[p].topic, subscriptions[id])
       THEN /\ chan' = [chan EXCEPT ![id] = Send(@, CloneEvent(pub_event[p]), id \in rx_held)]
            /\ pub_todo' = [pub_todo EXCEPT ![p] = IF id \in rx_held THEN @ \ {id} ELSE {}]
       ELSE /\ UNCHANGED chan
            /\ pub_todo' = [pub_todo EXCEPT ![p] = @ \ {id}]
    /\ UNCHANGED <<subscriptions, next_id, pending, tokens, rx_held, received, last_recv,
                   readers, pub_pc, pub_event, pub_snap, pub_count>>
    /\ UNCHANGED nonBusVars

PublishStep(p, id) ==
    /\ pub_pc[p] = "loop"
    /\ id \in pub_todo[p]
    /\ IF topic_matches(pub_event[p].topic, subscriptions[id])
       THEN chan' = [chan EXCEPT ![id] = Send(@, CloneEvent(pub_event[p]), id \in rx_held)]
       ELSE UNCHANGED chan
    /\ pub_todo' = [pub_todo EXCEPT ![p] = @ \ {id}]
    /\ UNCHANGED <<subscriptions, next_id, pending, tokens, rx_held, received, last_recv,
                   readers, pub_pc, pub_event, pub_snap, pub_count>>
    /\ UNCHANGED nonBusVars

\* publish, line 88: the loop is over, the read guard is dropped, publish returns.
PublishEnd(p) ==
    /\ pub_pc[p] = "loop"
    /\ pub_todo[p] = {}
    /\ readers' = readers \ {p}
    /\ pub_pc' = [pub_pc EXCEPT ![p] = "idle"]
    /\ pub_event' = [pub_event EXCEPT ![p] = None]
    /\ pub_snap' = [pub_snap EXCEPT ![p] = << >>]
    /\ UNCHANGED <<subscriptions, next_id, pending, tokens, rx_held, chan, received,
                   last_recv, pub_todo, pub_count>>
    /\ UNCHANGED nonBusVars

(***************************************************************************)
(* WidgetContainer                                                         *)
(***************************************************************************)
MaxCalls == 4       \* calls on the container after its construction
MaxClock == 3       \* the clock stops here

\* WidgetContainer::new at any time of the clock.
ContInit ==
    /\ c_clock \in 0..1
    /\ c_mounted = FALSE
    /\ c_last_update = c_clock
    /\ c_hooks = << >>
    /\ c_calls = << <<"new", c_clock>> >>

ContIdle ==
    /\ c_clock = 0 /\ c_mounted = FALSE /\ c_last_update = 0
    /\ c_hooks = << >> /\ c_calls = << >>

\* Time passes between calls (Instant is monotonic).
Tick ==
    /\ c_clock < MaxClock
    /\ c_clock' = c_clock + 1
    /\ UNCHANGED <<c_mounted, c_last_update, c_hooks, c_calls>>
    /\ UNCHANGED nonContVars

MountNoGuard ==
    /\ Len(c_calls) =< MaxCalls
    /\ c_calls' = Append(c_calls, <<"mount">>)
    /\ c_hooks' = Append(c_hooks, <<"on_mount">>)
    /\ c_mounted' = TRUE
    /\ UNCHANGED <<c_clock, c_last_update>>
    /\ UNCHANGED nonContVars

Mount ==
    /\ Len(c_calls) =< MaxCalls
    /\ c_calls' = Append(c_calls, <<"mount">>)
    /\ IF ~c_mounted
       THEN /\ c_hooks' = Append(c_hooks, <<"on_mount">>)
            /\ c_mounted' = TRUE
       ELSE UNCHANGED <<c_hooks, c_mounted>>
    /\ UNCHANGED <<c_clock, c_last_update>>
    /\ UNCHANGED nonContVars

Unmount ==
    /\ Len(c_calls) =< MaxCalls
    /\ c_calls' = Append(c_calls, <<"unmount">>)
    /\ IF c_mounted
       THEN /\ c_hooks' = Append(c_hooks, <<"on_unmount">>)
            /\ c_mounted' = FALSE
       ELSE UNCHANGED <<c_hooks, c_mounted>>
    /\ UNCHANGED <<c_clock, c_last_update>>
    /\ UNCHANGED nonContVars

\* Instant::duration_since: zero when `earlier` is later than self.
duration_since(now, earlier) == IF now >= earlier THEN now - earlier ELSE 0

\* update that moves last_update only when the hook ran.
UpdateStampsOnHook(needs_update) ==
    /\ Len(c_calls) =< MaxCalls
    /\ LET now == c_clock
           delta == duration_since(now, c_last_update)
       IN  /\ c_calls' = Append(c_calls, <<"update", now, needs_update>>)
           /\ c_hooks' = IF needs_update THEN Append(c_hooks, <<"on_update", delta>>)
                         ELSE c_hooks
           /\ c_last_update' = IF needs_update THEN now ELSE c_last_update
    /\ UNCHANGED <<c_clock, c_mounted>>
    /\ UNCHANGED nonContVars

\* needs_update is what the widget's needs_update() returns in this call.
Update(needs_update) ==
    /\ Len(c_calls) =< MaxCalls
    /\ LET now == c_clock
           delta == duration_since(now, c_last_update)
       IN  /\ c_calls' = Append(c_calls, <<"update", now, needs_update>>)
           /\ c_hooks' = IF needs_update THEN Append(c_hooks, <<"on_update", delta>>)
                         ELSE c_hooks
           /\ c_last_update' = now
    /\ UNCHANGED <<c_clock, c_mounted>>
    /\ UNCHANGED nonContVars

ContNext ==
    \/ Tick
    \/ Mount
    \/ Unmount
    \/ \E needs_update \in BOOLEAN : Update(needs_update)

(***************************************************************************)
(* WidgetRegistry                                                          *)
(***************************************************************************)
MaxMade == 3        \* widget instances built in a run
MaxCreate == 3      \* create calls in a run
Names == {"cpu", "plug"}
Factories == {"f1", "f2"}

RegInit ==
    /\ r_factories = << >>
    /\ r_widgets = << >>
    /\ r_made = 0
    /\ r_log = << >>

RegIdle == RegInit

\* HashMap::insert: the entry of the key is set, an older one replaced.
Insert(map, k, v) == (k :> v) @@ map

register(name, factory) ==
    /\ r_factories' = Insert(r_factories, name, factory)
    /\ UNCHANGED <<r_widgets, r_made, r_log>>
    /\ UNCHANGED nonRegVars

\* The caller builds an instance (a plugin widget) and hands it over.
register_widget(name) ==
    /\ r_made < MaxMade
    /\ r_widgets' = Insert(r_widgets, name, <<"prebuilt", r_made>>)
    /\ r_made' = r_made + 1
    /\ UNCHANGED <<r_factories, r_log>>
    /\ UNCHANGED nonRegVars

\* create that looks the instance up and leaves it in the map.
create_keeps_instance(name) ==
    /\ Len(r_log) < MaxCreate
    /\ IF name \in DOMAIN r_widgets
       THEN /\ r_log' = Append(r_log, [name |-> name, result |-> <<"Some", r_widgets[name]>>])
            /\ UNCHANGED <<r_widgets, r_made>>
       ELSE IF name \in DOMAIN r_factories
       THEN /\ r_made < MaxMade
            /\ r_log' = Append(r_log, [name |-> name,
                               result |-> <<"Some", <<"made", r_made, r_factories[name]>> >>])
            /\ r_made' = r_made + 1
            /\ UNCHANGED r_widgets
       ELSE /\ r_log' = Append(r_log, [name |-> name, result |-> <<"None">>])
            /\ UNCHANGED <<r_widgets, r_made>>
    /\ UNCHANGED r_factories
    /\ UNCHANGED nonRegVars

create(name) ==
    /\ Len(r_log) < MaxCreate
    /\ IF name \in DOMAIN r_widgets
       THEN /\ r_log' = Append(r_log, [name |-> name, result |-> <<"Some", r_widgets[name]>>])
            /\ r_widgets' = Without(r_widgets, name)
            /\ UNCHANGED r_made
       ELSE IF name \in DOMAIN r_factories
       THEN /\ r_made < MaxMade
            /\ r_log' = Append(r_log, [name |-> name,
                               result |-> <<"Some", <<"made", r_made, r_factories[name]>> >>])
            /\ r_made' = r_made + 1
            /\ UNCHANGED r_widgets
       ELSE /\ r_log' = Append(r_log, [name |-> name, result |-> <<"None">>])
            /\ UNCHANGED <<r_widgets, r_made>>
    /\ UNCHANGED r_factories
    /\ UNCHANGED nonRegVars

clear_widgets ==
    /\ r_widgets # << >>
    /\ r_widgets' = << >>
    /\ UNCHANGED <<r_factories, r_made, r_log>>
    /\ UNCHANGED nonRegVars

RegNext ==
    \/ \E name \in Names, factory \in Factories : register(name, factory)
    \/ \E name \in Names : register_widget(name)
    \/ \E name \in Names : create(name)
    \/ clear_widgets

(***************************************************************************)
(* Layout engine.  Sizes and positions are u16.                            *)
(***************************************************************************)
U16 == 65536
Wrap(n) == n % U16
Min2(a, b) == IF a < b THEN a ELSE b
Max2(a, b) == IF a > b THEN a ELSE b

\* LayoutItem::Constraint(c) and LayoutItem::Nested(layout), as records of one shape.
Leaf(kind, v) == [item |-> "Constraint", kind |-> kind, v |-> v, dir |-> "-", items |-> << >>]
Nested(layout) == [item |-> "Nested", kind |-> "-", v |-> 0,
                   dir |-> layout.dir, items |-> layout.items]
LayoutOf(dir, items) == [dir |-> dir, items |-> items]
Rect(x, y, width, height) == [x |-> x, y |-> y, width |-> width, height |-> height]

IsFlexItem(it) == it.item = "Nested" \/ it.kind = "Flex"
\* The weight the second pass gives an item of the flex pool.
Weight(it) == IF it.item = "Nested" THEN 1 ELSE it.v

RECURSIVE SumTo(_, _)
\* f[1] + ... + f[n]
SumTo(f, n) == IF n = 0 THEN 0 ELSE SumTo(f, n - 1) + f[n]

RECURSIVE first_pass(_, _, _, _)
\* The first pass after the first n items: the sizes pushed, remaining, flex_total,
\* and whether a u16 operation overflowed. origin is area.x (area.y).
first_pass(items, n, total, origin) ==
    IF n = 0
    THEN [sizes |-> << >>, remaining |-> total, flex_total |-> 0, ovf |-> FALSE]
    ELSE LET acc == first_pass(items, n - 1, total, origin)
             it == items[n]
             \* area.x + (total_width - remaining_width)
             pos_ovf == origin + (total - acc.remaining) >= U16
         IN  IF it.item = "Constraint" /\ it.kind = "Fixed"
             THEN LET allocated == Min2(it.v, acc.remaining)
                  IN  [sizes |-> Append(acc.sizes, allocated),
                       remaining |-> acc.remaining - allocated,
                       flex_total |-> acc.flex_total,
                       ovf |-> acc.ovf \/ pos_ovf]
             ELSE IF it.item = "Constraint" /\ it.kind = "Percentage"
             THEN LET product == total * Min2(it.v, 100)
                      size == Min2(Wrap(product) \div 100, acc.remaining)
                  IN  [sizes |-> Append(acc.sizes, size),
                       remaining |-> acc.remaining - size,
                       flex_total |-> acc.flex_total,
                       ovf |-> acc.ovf \/ pos_ovf \/ product >= U16]
             ELSE IF IsFlexItem(it)
             THEN [sizes |-> Append(acc.sizes, 0),
                   remaining |-> acc.remaining,
                   flex_total |-> acc.flex_total + 1,
                   ovf |-> acc.ovf \/ pos_ovf]
             ELSE \* Min, Max
                  [sizes |-> Append(acc.sizes, 0),
                   remaining |-> acc.remaining,
                   flex_total |-> acc.flex_total,
                   ovf |-> acc.ovf \/ pos_ovf]

\* The second pass on the outcome fp of the first: [sizes, ovf].
second_pass(items, fp) ==
    LET n == Len(items)
        remaining == fp.remaining
        flex == {i \in 1..n : IsFlexItem(items[i])}
        weight_sum == SumTo([i \in 1..n |-> IF i \in flex THEN Weight(items[i]) ELSE 0], n)
        total_flex_weight == Wrap(weight_sum)
    IN  IF fp.flex_total > 0 /\ remaining > 0 /\ total_flex_weight > 0
        THEN LET flex_size(i) ==
                     IF items[i].item = "Nested"
                     THEN Max2(remaining \div total_flex_weight, 1)
                     ELSE Max2(Wrap(remaining * items[i].v) \div total_flex_weight, 1)
                 given == [i \in 1..n |-> IF i \in flex THEN flex_size(i) ELSE fp.sizes[i]]
                 distributed_sum == SumTo([i \in 1..n |-> IF i \in flex THEN given[i] ELSE 0], n)
                 distributed == Wrap(distributed_sum)
                 last == CHOOSE i \in flex : \A j \in flex : j =< i
                 leftover == remaining - distributed
             IN  [sizes |-> IF distributed < remaining
                            THEN [given EXCEPT ![last] = Wrap(@ + leftover)]
                            ELSE given,
                  ovf |-> \/ fp.ovf
                          \/ weight_sum >= U16
                          \/ \E i \in flex : items[i].item = "Constraint"
                                             /\ remaining * items[i].v >= U16
                          \/ distributed_sum >= U16
                          \/ (distributed < remaining /\ given[last] + leftover >= U16)]
        ELSE [sizes |-> fp.sizes,
              ovf |-> fp.ovf \/ (fp.flex_total > 0 /\ remaining > 0 /\ weight_sum >= U16)]

\* The last loop: the running offset along the major axis.
OffsetOf(sizes, origin, i) == Wrap(origin + SumTo(sizes, i - 1))

\* split_horizontal and split_vertical are the same code on the two axes.
SplitAxis(dir, area, items) ==
    IF items = << >> THEN [rects |-> << >>, ovf |-> FALSE]
    ELSE LET horizontal == dir = "Horizontal"
             total == IF horizontal THEN area.width ELSE area.height
             origin == IF horizontal THEN area.x ELSE area.y
             sp == second_pass(items, first_pass(items, Len(items), total, origin))
         IN  [rects |-> [i \in 1..Len(items) |->
                           IF horizontal
                           THEN Rect(OffsetOf(sp.sizes, origin, i), area.y,
                                     sp.sizes[i], area.height)
                           ELSE Rect(area.x, OffsetOf(sp.sizes, origin, i),
                                     area.width, sp.sizes[i])],
              ovf |-> sp.ovf \/ origin + SumTo(sp.sizes, Len(items)) >= U16]

split_horizontal(area, items) == SplitAxis("Horizontal", area, items)
split_vertical(area, items) == SplitAxis("Vertical", area, items)

SplitOf(layout, area) ==
    IF layout.dir = "Horizontal" THEN split_horizontal(area, layout.items)
    ELSE split_vertical(area, layout.items)

RECURSIVE calculate_recursive(_, _)
RECURSIVE EmitFrom(_, _, _)
RECURSIVE EmitNestedToo(_, _, _)
\* A variant of the loop that also pushes the rectangle of a Nested item itself.
EmitNestedToo(layout, rects, i) ==
    IF i > Len(layout.items) THEN [output |-> << >>, ovf |-> FALSE, splits |-> << >>]
    ELSE LET it == layout.items[i]
             here == IF it.item = "Constraint"
                     THEN [output |-> << >>, ovf |-> FALSE, splits |-> << >>]
                     ELSE calculate_recursive(LayoutOf(it.dir, it.items), rects[i])
             rest == EmitNestedToo(layout, rects, i + 1)
         IN  [output |-> <<rects[i]>> \o here.output \o rest.output,
              ovf |-> here.ovf \/ rest.ovf,
              splits |-> here.splits \o rest.splits]

\* The for loop of calculate_recursive over rects.zip(items), from item i on:
\* [output, ovf, splits] of what it pushes and of the calls below it.
EmitFrom(layout, rects, i) ==
    IF i > Len(layout.items) THEN [output |-> << >>, ovf |-> FALSE, splits |-> << >>]
    ELSE LET it == layout.items[i]
             here == IF it.item = "Constraint"
                     THEN [output |-> <<rects[i]>>, ovf |-> FALSE, splits |-> << >>]
                     ELSE calculate_recursive(LayoutOf(it.dir, it.items), rects[i])
             rest == EmitFrom(layout, rects, i + 1)
         IN  [output |-> here.output \o rest.output,
              ovf |-> here.ovf \/ rest.ovf,
              splits |-> here.splits \o rest.splits]

calculate_recursive(layout, area) ==
    LET split == SplitOf(layout, area)
        below == EmitFrom(layout, split.rects, 1)
    IN  [output |-> below.output,
         ovf |-> split.ovf \/ below.ovf,
         splits |-> << [dir |-> layout.dir, area |-> area, items |-> layout.items,
                        rects |-> split.rects] >> \o below.splits]

(***************************************************************************)
(* The layouts and areas calculate is applied to.                          *)
(***************************************************************************)
MaxItems == 3       \* items of one Horizontal/Vertical node
MaxDepth == 2       \* Horizontal/Vertical nodes on a path from the root
MaxNested == 1      \* Nested items of one node

Leaves == { Leaf("Fixed", 30), Leaf("Percentage", 60), Leaf("Percentage", 150),
            Leaf("Flex", 1), Leaf("Flex", 70), Leaf("Min", 5) }
Dirs == {"Horizontal", "Vertical"}
Areas == { Rect(0, 0, 100, 20), Rect(2, 65534, 1000, 1), Rect(1, 1, 2, 1) }

Cross(dir) == IF dir = "Horizontal" THEN "Vertical" ELSE "Horizontal"

\* The place of a Nested item in an item list whose nested layouts are not chosen yet.
Slot == [item |-> "Nested", kind |-> "-", v |-> 0, dir |-> "-", items |-> << >>]
Slots(shape) == {i \in 1..Len(shape) : shape[i] = Slot}

\* The item lists of a node with d levels at most below and including it.
Shapes(d) ==
    LET choices == IF d =< 1 THEN Leaves ELSE Leaves \cup {Slot}
    IN  {shape \in UNION {[1..n -> choices] : n \in 0..MaxItems} :
            Cardinality(Slots(shape)) =< MaxNested}

\* shape with its k-th Slot replaced by the nested layout subs[k].
Fill(shape, subs) ==
    [i \in 1..Len(shape) |->
        IF shape[i] = Slot
        THEN Nested(subs[Cardinality({j \in Slots(shape) : j =< i})])
        ELSE shape[i]]

RECURSIVE LayoutsIn(_, _)
\* The layouts of direction dir and at most d levels; a Nested layout runs across
\* the layout that holds it.
LayoutsIn(dir, d) ==
    IF d =< 0 THEN {}
    ELSE UNION { {LayoutOf(dir, Fill(shape, subs)) :
                     subs \in [1..Cardinality(Slots(shape)) -> LayoutsIn(Cross(dir), d - 1)]} :
                 shape \in Shapes(d) }

LayInit ==
    /\ \E dir \in Dirs : \E shape \in Shapes(MaxDepth) :
       \E subs \in [1..Cardinality(Slots(shape)) -> LayoutsIn(Cross(dir), MaxDepth - 1)] :
           l_layout = LayoutOf(dir, Fill(shape, subs))
    /\ l_area \in Areas
    /\ l_result = << >>
    /\ l_splits = << >>

LayIdle ==
    /\ l_layout = LayoutOf("Horizontal", << >>)
    /\ l_area = Rect(0, 0, 0, 0)
    /\ l_result = << >>
    /\ l_splits = << >>

\* Layout::calculate returns the rectangles; u16 arithmetic that overflows wraps.
calculate ==
    /\ l_result = << >>
    /\ LET run == calculate_recursive(l_layout, l_area)
       IN  /\ l_result' = <<"Ok", run.output>>
           /\ l_splits' = run.splits
    /\ UNCHANGED <<l_layout, l_area>>
    /\ UNCHANGED nonLayVars

\* Layout::calculate in a build with overflow checks, on an overflow: it panics.
calculate_panics ==
    /\ l_result = << >>
    /\ calculate_recursive(l_layout, l_area).ovf
    /\ l_result' = <<"Panic">>
    /\ UNCHANGED <<l_layout, l_area, l_splits>>
    /\ UNCHANGED nonLayVars

LayNext ==
    \/ calculate
    \/ calculate_panics

(***************************************************************************)
(* The host and its plugins: PluginManager (plugin.rs) and what main does  *)
(* with it (main.rs).                                                      *)
(***************************************************************************)
MaxFiles == 2       \* entries of the plugin directory
MaxConfig == 2      \* widgets a dashboard names
MaxReloads == 2     \* watcher events and Ctrl+R presses of a run

Stems == {"foo", "bar"}             \* file stems of plugin files
PluginNames == {"foo", "bar", "placeholder"}    \* names a library's metadata reports
Builtins == {"cpu"}                 \* names with a factory in the registry
ConfigNames == Stems \cup Builtins \cup {"nope"}    \* "nope": a name nothing registers
dll_extension == "so"
\* The stems of the files a watcher event can name: a file may appear in the plugin
\* directory under any name, that of a built-in widget included.
EventStems == Stems \cup Builtins

\* A library file, by what load_plugin meets in it.
Good(name) == [opens |-> TRUE, api_version |-> 1, symbols |-> TRUE, utf8 |-> TRUE, name |-> name]
Unloadable == [Good("-") EXCEPT !.opens = FALSE]    \* copy_to_temp or Library::new fails
WrongVersion == [Good("foo") EXCEPT !.api_version = 2]
NoSymbols == [Good("foo") EXCEPT !.symbols = FALSE] \* no create or destroy symbol
BadName == [Good("-") EXCEPT !.utf8 = FALSE]        \* the name is not UTF-8
Libs == {Good(n) : n \in PluginNames} \cup {Unloadable, WrongVersion, NoSymbols, BadName}

\* An entry of the plugin directory.
PluginFile(stem, lib) == [stem |-> stem, ext |-> dll_extension, lib |-> lib, readable |-> TRUE]
OtherFile == [stem |-> "notes", ext |-> "txt", lib |-> Unloadable, readable |-> TRUE]
BadEntry == [stem |-> "-", ext |-> "-", lib |-> Unloadable, readable |-> FALSE]  \* entry? fails
DirEntries == {PluginFile(s, l) : s \in Stems, l \in Libs} \cup {OtherFile, BadEntry}
\* The directories read_dir can yield. Files of one directory differ in their names;
\* load_all never looks at the stem, so the plugin file met first is foo.so.
PluginDirs == {d \in UNION {[1..n -> DirEntries] : n \in 0..MaxFiles} :
            /\ \A i, j \in 1..Len(d) : (i # j /\ d[i].readable /\ d[j].readable)
                                           => d[i].stem # d[j].stem
            /\ \A i \in 1..Len(d) :
                  d[i].stem = "bar" => \E j \in 1..(i - 1) : d[j].stem = "foo"}

extract_plugin_name(path) == path.stem

PluginWidget(h) == [plugin |-> TRUE, h |-> h]
BuiltinWidget == [plugin |-> FALSE, h |-> 0]
\* WidgetContainer::new
Container(name, widget) == [name |-> name, mounted |-> FALSE, widget |-> widget]
Placeholder == Container("placeholder", BuiltinWidget)

\* A variant of the drop that releases the library first.
DropWidgetLibraryFirst(w) ==
    IF w.plugin THEN << <<"close", w.h>>, <<"destroy", w.h>> >> ELSE << >>

\* impl Drop for PluginWidget, then the drop of its fields: destroy, then the library.
DropWidget(w) == IF w.plugin THEN << <<"destroy", w.h>>, <<"close", w.h>> >> ELSE << >>

RECURSIVE DropAll(_, _)
\* The drop of a Vec of containers (or of named widgets), element by element from i.
DropAll(list, i) ==
    IF i > Len(list) THEN << >> ELSE DropWidget(list[i].widget) \o DropAll(list, i + 1)

RECURSIVE UnmountAll(_, _)
\* unmount() on each container from i: the hooks invoked.
UnmountAll(list, i) ==
    IF i > Len(list) THEN << >>
    ELSE (IF list[i].mounted THEN << <<"on_unmount", list[i].widget.h>> >> ELSE << >>)
         \o UnmountAll(list, i + 1)

RECURSIVE MountAll(_, _)
\* mount() on each container from i: the hooks invoked.
MountAll(list, i) ==
    IF i > Len(list) THEN << >>
    ELSE (IF list[i].mounted THEN << >> ELSE << <<"on_mount", list[i].widget.h>> >>)
         \o MountAll(list, i + 1)

\* widgets.iter().position(|w| w.name() == name), counted from 1; 0 for None.
Position(list, name) ==
    IF \E i \in 1..Len(list) : list[i].name = name
    THEN CHOOSE i \in 1..Len(list) :
            list[i].name = name /\ \A j \in 1..(i - 1) : list[j].name # name
    ELSE 0

\* A variant of load_plugin that calls create before it checks the version.
load_plugin_creates_first(lib, id) ==
    IF ~lib.opens
    THEN [result |-> <<"Err", "Loading">>, name |-> "-", opened |-> FALSE, trace |-> << >>]
    ELSE IF ~lib.symbols
    THEN [result |-> <<"Err", "Loading">>, name |-> "-", opened |-> TRUE,
          trace |-> << <<"open", id>>, <<"metadata", id>>, <<"close", id>> >>]
    ELSE IF lib.api_version # 1 \/ ~lib.utf8
    THEN [result |-> <<"Err", IF lib.api_version # 1 THEN "VersionMismatch" ELSE "Utf8">>,
          name |-> "-", opened |-> TRUE,
          trace |-> << <<"open", id>>, <<"metadata", id>>, <<"create", id>>,
                       <<"close", id>> >>]
    ELSE [result |-> <<"Ok", lib.name>>, name |-> lib.name, opened |-> TRUE,
          trace |-> << <<"open", id>>, <<"metadata", id>>, <<"create", id>>,
                       <<"insert_entry", id>> >>]

\* load_plugin on a file holding lib, the library it opens being number id.
load_plugin(lib, id) ==
    IF ~lib.opens
    THEN [result |-> <<"Err", "Loading">>, name |-> "-", opened |-> FALSE, trace |-> << >>]
    ELSE IF lib.api_version # 1
    THEN [result |-> <<"Err", "VersionMismatch">>, name |-> "-", opened |-> TRUE,
          trace |-> << <<"open", id>>, <<"metadata", id>>, <<"close", id>> >>]
    ELSE IF ~lib.symbols
    THEN [result |-> <<"Err", "Loading">>, name |-> "-", opened |-> TRUE,
          trace |-> << <<"open", id>>, <<"metadata", id>>, <<"close", id>> >>]
    ELSE IF ~lib.utf8
    THEN [result |-> <<"Err", "Utf8">>, name |-> "-", opened |-> TRUE,
          trace |-> << <<"open", id>>, <<"metadata", id>>, <<"create", id>>,
                       <<"close", id>> >>]
    ELSE [result |-> <<"Ok", lib.name>>, name |-> lib.name, opened |-> TRUE,
          trace |-> << <<"open", id>>, <<"metadata", id>>, <<"create", id>>,
                       <<"insert_entry", id>> >>]

RECURSIVE load_all_from(_, _, _)
\* The for loop of load_all over the entries of dir from i on; acc is
\* [widgets, plugins, next, trace, attempted] so far.
load_all_from(dir, i, acc) ==
    IF i > Len(dir) THEN [acc EXCEPT !.result = <<"Ok">>]
    ELSE IF ~dir[i].readable
    THEN \* entry? returns the error: the widgets loaded so far are dropped
         [acc EXCEPT !.result = <<"Err">>,
                     !.trace = @ \o DropAll(acc.widgets, 1),
                     !.widgets = << >>]
    ELSE IF dir[i].ext # dll_extension THEN load_all_from(dir, i + 1, acc)
    ELSE LET lp == load_plugin(dir[i].lib, acc.next + 1)
             ok == lp.result[1] = "Ok"
         IN  load_all_from(dir, i + 1,
                 [result |-> acc.result,
                  widgets |-> IF ok
                              THEN Append(acc.widgets,
                                          [name |-> lp.name,
                                           widget |-> PluginWidget(acc.next + 1)])
                              ELSE acc.widgets,
                  plugins |-> IF ok THEN acc.plugins \cup {lp.name} ELSE acc.plugins,
                  next |-> IF lp.opened THEN acc.next + 1 ELSE acc.next,
                  trace |-> acc.trace \o lp.trace,
                  attempted |-> Append(acc.attempted,
                                      [i |-> i,
                                       id |-> IF lp.opened THEN acc.next + 1 ELSE 0,
                                       result |-> lp.result])])

load_all(dir, plugins, next) ==
    load_all_from(dir, 1, [result |-> << >>, widgets |-> << >>, plugins |-> plugins,
                           next |-> next, trace |-> << >>, attempted |-> << >>])

RECURSIVE RegisterAll(_, _, _)
\* main: registry.register_widget(&name, widget) for each loaded plugin from i on;
\* HashMap::insert drops the widget it replaces. [registry, trace]
RegisterAll(list, i, reg) ==
    IF i > Len(list) THEN [registry |-> reg, trace |-> << >>]
    ELSE LET replaced == IF list[i].name \in DOMAIN reg
                         THEN DropWidget(reg[list[i].name]) ELSE << >>
             rest == RegisterAll(list, i + 1, Insert(reg, list[i].name, list[i].widget))
         IN  [registry |-> rest.registry, trace |-> replaced \o rest.trace]

RECURSIVE CreateAll(_, _, _)
\* main / reload_dashboard: registry.create(name) for each name of the configuration
\* from i on, a container for each widget it returns. [registry, widgets]
CreateAll(config, i, reg) ==
    IF i > Len(config) THEN [registry |-> reg, widgets |-> << >>]
    ELSE LET name == config[i]
         IN  IF name \in DOMAIN reg
             THEN LET rest == CreateAll(config, i + 1, Without(reg, name))
                  IN  [registry |-> rest.registry,
                       widgets |-> <<Container(name, reg[name])>> \o rest.widgets]
             ELSE IF name \in Builtins
             THEN LET rest == CreateAll(config, i + 1, reg)
                  IN  [registry |-> rest.registry,
                       widgets |-> <<Container(name, BuiltinWidget)>> \o rest.widgets]
             ELSE CreateAll(config, i + 1, reg)

Mounted(list) == [i \in 1..Len(list) |-> [list[i] EXCEPT !.mounted = TRUE]]

Count(trace, what, h) == Cardinality({k \in 1..Len(trace) : trace[k] = <<what, h>>})

\* The effect of an operation's events on the totals.
Tally(trace, next) ==
    /\ p_trace' = trace
    /\ p_next' = next
    /\ p_created' = p_created \cup {h \in 1..next : Count(trace, "create", h) > 0}
    /\ p_destroyed' = [h \in 1..next |->
                         (IF h =< p_next THEN p_destroyed[h] ELSE 0)
                             + Count(trace, "destroy", h)]
    /\ p_mounted' = [h \in 1..next |->
                       (IF h =< p_next THEN p_mounted[h] ELSE 0)
                           + Count(trace, "on_mount", h)]

Op(op, stem, lib, idx, result) ==
    [op |-> op, stem |-> stem, lib |-> lib, idx |-> idx, result |-> result]

AppStart ==
    /\ p_phase = "boot"
    /\ p_watcher = "none"
    /\ p_config = << >>
    /\ p_loaded = << >>
    /\ p_attempted = << >>
    /\ p_plugins = {}
    /\ p_registry = << >>
    /\ p_widgets = << >>
    /\ p_next = 0
    /\ p_created = {}
    /\ p_destroyed = << >>
    /\ p_mounted = << >>
    /\ p_op = Op("boot", "-", Unloadable, 0, <<"Ok", "-">>)
    /\ p_trace = << >>
    /\ p_reloads = 0
    /\ p_file = << >>

AppInit == p_dir \in PluginDirs /\ AppStart

AppIdle == p_dir = << >> /\ AppStart

\* PluginManager::new, the creation of the watcher succeeding or failing, and after a
\* failure the creation of the stand-in watcher, unwrapped, succeeding or failing.
PluginManager_new(watcher_ok, stand_in_ok) ==
    /\ p_phase = "boot"
    /\ IF watcher_ok
       THEN /\ p_watcher' = "live"
            /\ p_phase' = "start"
            /\ p_op' = Op("new", "-", Unloadable, 0, <<"Ok", "live">>)
       ELSE IF stand_in_ok
       THEN /\ p_watcher' = "disabled"
            /\ p_phase' = "start"
            /\ p_op' = Op("new", "-", Unloadable, 0, <<"Ok", "disabled">>)
       ELSE /\ p_watcher' = "none"
            /\ p_phase' = "panicked"
            /\ p_op' = Op("new", "-", Unloadable, 0, <<"Err", "panic">>)
    /\ Tally(<< >>, p_next)
    /\ UNCHANGED <<p_config, p_dir, p_loaded, p_attempted, p_plugins, p_registry,
                   p_widgets, p_reloads, p_file>>
    /\ UNCHANGED nonAppVars

\* main: plugin_manager.load_all().unwrap_or_else(..)
LoadAll ==
    /\ p_phase = "start"
    /\ LET run == load_all(p_dir, p_plugins, p_next)
       IN  /\ p_loaded' = IF run.result = <<"Ok">> THEN <<"Ok", run.widgets>> ELSE <<"Err">>
           /\ p_attempted' = run.attempted
           /\ p_plugins' = run.plugins
           /\ Tally(run.trace, run.next)
           /\ p_op' = Op("load_all", "-", Unloadable, 0,
                        IF run.result = <<"Ok">> THEN <<"Ok", "-">> ELSE <<"Err", "Io">>)
           /\ p_file' = [h \in 1..run.next |->
                            IF h =< p_next THEN p_file[h]
                            ELSE LET a == CHOOSE k \in 1..Len(run.attempted) :
                                              run.attempted[k].id = h
                                 IN  extract_plugin_name(p_dir[run.attempted[a].i])]
    /\ p_phase' = "loaded"
    /\ UNCHANGED <<p_watcher, p_config, p_dir, p_registry, p_widgets, p_reloads>>
    /\ UNCHANGED nonAppVars

\* main: register the loaded plugins, create the widgets the dashboard names, mount.
BuildWidgets(config) ==
    /\ p_phase = "loaded"
    /\ LET plugin_widgets == IF p_loaded[1] = "Ok" THEN p_loaded[2] ELSE << >>
           registered == RegisterAll(plugin_widgets, 1, p_registry)
           made == CreateAll(config, 1, registered.registry)
       IN  /\ p_registry' = made.registry
           /\ p_widgets' = Mounted(made.widgets)
           /\ Tally(registered.trace \o MountAll(made.widgets, 1), p_next)
    /\ p_op' = Op("build", "-", Unloadable, 0, <<"Ok", "-">>)
    /\ p_phase' = "running"
    /\ p_config' = config
    /\ UNCHANGED <<p_watcher, p_dir, p_loaded, p_attempted, p_plugins, p_reloads, p_file>>
    /\ UNCHANGED nonAppVars

\* A variant of the teardown that drops the old widget before it unmounts it.
TeardownDropsFirst(old_widget) ==
    DropWidget(old_widget.widget) \o UnmountAll(<<old_widget>>, 1)

\* reload_plugin: old_widget.unmount(), then old_widget goes out of scope.
Teardown(old_widget) ==
    UnmountAll(<<old_widget>>, 1) \o DropWidget(old_widget.widget)

\* A variant of the splice that removes the old slot and appends the new container.
SpliceAtEnd(widgets, widget_idx, new_container) ==
    IF widget_idx # 0
    THEN Append([i \in 1..(Len(widgets) - 1) |->
                    IF i < widget_idx THEN widgets[i] ELSE widgets[i + 1]],
                new_container)
    ELSE Append(widgets, new_container)

\* reload_plugin: "Replace or add widget".
Splice(widgets, widget_idx, new_container) ==
    IF widget_idx # 0
    THEN [widgets EXCEPT ![widget_idx] = new_container]
    ELSE Append(widgets, new_container)

\* reload_plugin(path, plugin_name, widgets), the file at path now holding lib.
reload_plugin(path, plugin_name, lib) ==
    LET widget_idx == Position(p_widgets, plugin_name)
        old_widget == p_widgets[widget_idx]
        teardown == IF widget_idx # 0 THEN Teardown(old_widget) ELSE << >>
        replaced == IF widget_idx # 0
                    THEN [p_widgets EXCEPT ![widget_idx] = Placeholder]
                    ELSE p_widgets
        lp == load_plugin(lib, p_next + 1)
        ok == lp.result[1] = "Ok"
        new_container == Container(lp.name, PluginWidget(p_next + 1))
        spliced == Splice(replaced, widget_idx, new_container)
        idx == Position(spliced, lp.name)
        before_mount == teardown \o << <<"remove_entry", 0>> >> \o lp.trace
    IN  /\ p_plugins' = (p_plugins \ {plugin_name}) \cup (IF ok THEN {lp.name} ELSE {})
        /\ IF ok
           THEN /\ p_widgets' = [spliced EXCEPT ![idx].mounted = TRUE]
                /\ Tally(before_mount \o MountAll(<<spliced[idx]>>, 1), p_next + 1)
           ELSE /\ p_widgets' = replaced
                /\ Tally(before_mount, IF lp.opened THEN p_next + 1 ELSE p_next)
        /\ p_op' = Op("reload", plugin_name, lib, widget_idx, lp.result)
        /\ p_file' = IF lp.opened THEN Append(p_file, extract_plugin_name(path)) ELSE p_file

\* What the watcher's channel can deliver: a modify event for a plugin file, a
\* create event for one (a good library, a file that does not load), a modify event
\* for another file, an event of another kind, an error.
WatcherEvents ==
    {[kind |-> "modify", path |-> PluginFile(s, l)] : s \in EventStems, l \in Libs}
        \cup {[kind |-> "create", path |-> PluginFile("foo", Good("foo"))],
              [kind |-> "create", path |-> PluginFile("bar", Unloadable)],
              [kind |-> "modify", path |-> OtherFile],
              [kind |-> "remove", path |-> PluginFile("foo", Good("foo"))],
              [kind |-> "error", path |-> OtherFile]}

\* A variant of the loop body that reloads on an event of any kind.
check_for_changes_any_kind(event) ==
    /\ p_phase = "running"
    /\ p_watcher = "live"
    /\ p_reloads < MaxReloads
    /\ IF event.kind # "error" /\ event.path.ext = dll_extension
       THEN reload_plugin(event.path, extract_plugin_name(event.path), event.path.lib)
       ELSE /\ p_op' = Op("event", "-", Unloadable, 0, <<"Ok", event.kind>>)
            /\ Tally(<< >>, p_next)
            /\ UNCHANGED <<p_plugins, p_widgets, p_file>>
    /\ p_reloads' = p_reloads + 1
    /\ UNCHANGED <<p_phase, p_watcher, p_config, p_dir, p_loaded, p_attempted, p_registry>>
    /\ UNCHANGED nonAppVars

\* check_for_changes, one pass of its `while let Ok(event) = self.rx.try_recv()`:
\* a modify or create event for a file with the library extension reloads the plugin,
\* the error of reload_plugin being printed and dropped; any other event is skipped.
check_for_changes(event) ==
    /\ p_phase = "running"
    /\ p_watcher = "live"
    /\ p_reloads < MaxReloads
    /\ IF event.kind \in {"modify", "create"} /\ event.path.ext = dll_extension
       THEN reload_plugin(event.path, extract_plugin_name(event.path), event.path.lib)
       ELSE /\ p_op' = Op("event", "-", Unloadable, 0, <<"Ok", event.kind>>)
            /\ Tally(<< >>, p_next)
            /\ UNCHANGED <<p_plugins, p_widgets, p_file>>
    /\ p_reloads' = p_reloads + 1
    /\ UNCHANGED <<p_phase, p_watcher, p_config, p_dir, p_loaded, p_attempted, p_registry>>
    /\ UNCHANGED nonAppVars

Configs == UNION {[1..n -> ConfigNames] : n \in 0..MaxConfig}

\* A variant of the failing Ctrl+R that unmounts the widgets before it gives up.
ConfigReloadFailsUnmounted ==
    /\ p_phase = "running"
    /\ p_reloads < MaxReloads
    /\ p_reloads' = p_reloads + 1
    /\ p_op' = Op("config_reload", "-", Unloadable, 0, <<"Err", "Config">>)
    /\ Tally(UnmountAll(p_widgets, 1), p_next)
    /\ p_widgets' = [i \in 1..Len(p_widgets) |-> [p_widgets[i] EXCEPT !.mounted = FALSE]]
    /\ UNCHANGED <<p_phase, p_watcher, p_config, p_dir, p_loaded, p_attempted, p_plugins,
                   p_registry, p_file>>
    /\ UNCHANGED nonAppVars

\* main on Ctrl+R with reload_dashboard failing: the old configuration is kept.
ConfigReloadFails ==
    /\ p_phase = "running"
    /\ p_reloads < MaxReloads
    /\ p_reloads' = p_reloads + 1
    /\ p_op' = Op("config_reload", "-", Unloadable, 0, <<"Err", "Config">>)
    /\ Tally(<< >>, p_next)
    /\ UNCHANGED <<p_phase, p_watcher, p_config, p_dir, p_loaded, p_attempted, p_plugins,
                   p_registry, p_widgets, p_file>>
    /\ UNCHANGED nonAppVars

\* main on Ctrl+R with reload_dashboard returning the widgets of config.
ConfigReload(config) ==
    /\ p_phase = "running"
    /\ p_reloads < MaxReloads
    /\ p_reloads' = p_reloads + 1
    /\ LET made == CreateAll(config, 1, p_registry)
       IN  /\ p_registry' = made.registry
           /\ p_widgets' = Mounted(made.widgets)
           /\ Tally(UnmountAll(p_widgets, 1) \o DropAll(p_widgets, 1)
                        \o MountAll(made.widgets, 1), p_next)
    /\ p_op' = Op("config_reload", "-", Unloadable, 0, <<"Ok", "-">>)
    /\ p_config' = config
    /\ UNCHANGED <<p_phase, p_watcher, p_dir, p_loaded, p_attempted, p_plugins, p_file>>
    /\ UNCHANGED nonAppVars

RECURSIVE DropMap(_)
\* The drop of the registry's pre-built widgets.
DropMap(reg) ==
    IF DOMAIN reg = {} THEN << >>
    ELSE LET k == CHOOSE k \in DOMAIN reg : TRUE
         IN  DropWidget(reg[k]) \o DropMap(Without(reg, k))

\* impl Drop for PluginManager: unwatch, plugins.clear(), remove_dir_all(temp_dir).
\* A LoadedPlugin holds only the name, so clearing the entries calls nothing.
DropManager ==
    << <<"unwatch", 0>>, <<"clear_entries", 0>>, <<"remove_temp_dir", 0>> >>

\* main on 'q': unmount, drop the plugin manager, return (widgets, then the registry,
\* are dropped).
Quit ==
    /\ p_phase = "running"
    /\ p_phase' = "down"
    /\ p_plugins' = {}
    /\ p_widgets' = << >>
    /\ p_registry' = << >>
    /\ Tally(UnmountAll(p_widgets, 1) \o DropManager
                 \o DropAll(p_widgets, 1) \o DropMap(p_registry), p_next)
    /\ p_op' = Op("quit", "-", Unloadable, 0, <<"Ok", "-">>)
    /\ UNCHANGED <<p_watcher, p_config, p_dir, p_loaded, p_attempted, p_reloads, p_file>>
    /\ UNCHANGED nonAppVars

AppNext ==
    \/ \E watcher_ok, stand_in_ok \in BOOLEAN : PluginManager_new(watcher_ok, stand_in_ok)
    \/ LoadAll
    \/ \E config \in Configs : BuildWidgets(config)
    \/ \E event \in {e \in WatcherEvents : e.kind = "modify" /\ e.path.ext = dll_extension} :
          check_for_changes(event)
    \/ ConfigReloadFails
    \/ \E config \in Configs : ConfigReload(config)
    \/ Quit

\* Startup of a dashboard of one widget and then the watcher's events of every kind,
\* no key pressed.
WatchNext ==
    \/ \E watcher_ok, stand_in_ok \in BOOLEAN : PluginManager_new(watcher_ok, stand_in_ok)
    \/ LoadAll
    \/ \E name \in ConfigNames : BuildWidgets(<<name>>)
    \/ \E event \in WatcherEvents : check_for_changes(event)

(***************************************************************************)
(* impl Widget for PluginWidget: the wrapper and the instance behind it.   *)
(***************************************************************************)
MaxForwarded == 2   \* calls on the wrapper

\* What a plugin's widget can answer.
Sizes == { <<"None">>, <<"Some", 10, 3>> }
Instances == [preferred_size : Sizes, needs_update : {"true", "false"},
              on_event : {"Consumed", "Ignored"}]

\* A call of a Widget capability with its arguments.
Args(delta, event, area, focused) ==
    [delta |-> delta, event |-> event, area |-> area, focused |-> focused]
NoArgs == Args(0, "-", Rect(0, 0, 0, 0), FALSE)
Call(what, args) == [what |-> what, args |-> args]

\* What the instance returns from a call it receives.
InstanceReturns(inst, call) ==
    CASE call.what = "on_event" -> <<"EventResult", inst.on_event>>
      [] call.what = "preferred_size" -> inst.preferred_size
      [] call.what = "needs_update" -> <<"bool", inst.needs_update>>
      [] OTHER -> <<"unit">>

WrapInit ==
    /\ w_inst \in Instances
    /\ w_call = << >>
    /\ w_seen = << >>
    /\ w_ret = << >>

WrapIdle ==
    /\ w_inst = [preferred_size |-> <<"None">>, needs_update |-> "false", on_event |-> "Ignored"]
    /\ w_call = << >>
    /\ w_seen = << >>
    /\ w_ret = << >>

\* self.as_widget().f(args): the instance receives the call, its result is returned.
Forward(call) ==
    /\ Len(w_call) < MaxForwarded
    /\ w_call' = Append(w_call, call)
    /\ w_seen' = Append(w_seen, call)
    /\ w_ret' = InstanceReturns(w_inst, call)
    /\ UNCHANGED w_inst
    /\ UNCHANGED nonWrapVars

on_mount == Forward(Call("on_mount", NoArgs))
on_update(delta) == Forward(Call("on_update", Args(delta, "-", Rect(0, 0, 0, 0), FALSE)))
on_event(event) == Forward(Call("on_event", Args(0, event, Rect(0, 0, 0, 0), FALSE)))
render(area) == Forward(Call("render", Args(0, "-", area, FALSE)))
render_focused(area, focused) == Forward(Call("render_focused", Args(0, "-", area, focused)))
needs_update == Forward(Call("needs_update", NoArgs))
on_unmount == Forward(Call("on_unmount", NoArgs))

\* fn preferred_size(&self) -> Option<Size> { None }
preferred_size ==
    /\ Len(w_call) < MaxForwarded
    /\ w_call' = Append(w_call, Call("preferred_size", NoArgs))
    /\ w_ret' = <<"None">>
    /\ UNCHANGED <<w_inst, w_seen>>
    /\ UNCHANGED nonWrapVars

WrapNext ==
    \/ on_mount
    \/ \E delta \in {0, 1} : on_update(delta)
    \/ \E event \in {"Key", "Resize"} : on_event(event)
    \/ \E area \in { Rect(0, 0, 10, 5), Rect(3, 4, 20, 6) } : render(area)
    \/ \E area \in { Rect(0, 0, 10, 5), Rect(3, 4, 20, 6) }, focused \in BOOLEAN :
           render_focused(area, focused)
    \/ preferred_size
    \/ needs_update
    \/ on_unmount

(***************************************************************************)
(* The main loop of the host: one iteration per step.                      *)
(***************************************************************************)
TickRate == 2       \* tick_rate (100 ms), counted in units of 50 ms
MaxElapsed == 4     \* readings of last_tick.elapsed() above this are taken as this
MaxWidgets == 3     \* containers in the live list

\* What an iteration reads from the terminal: "none" when poll times out, "resize"
\* for an event that is not a key press, else the key pressed.
Keys == {"none", "resize", "q", "ctrl_r", "tab", "char"}

LoopInit ==
    /\ f_pc = "loop"
    /\ f_widgets \in 0..MaxWidgets
    /\ f_focused = 0
    /\ f_elapsed = 0
    /\ f_key = "none"
    /\ f_steps = << >>

LoopIdle ==
    /\ f_pc = "loop" /\ f_widgets = 0 /\ f_focused = 0 /\ f_elapsed = 0
    /\ f_key = "none" /\ f_steps = << >>

\* One pass through the body of `loop`. key is what poll and read deliver after
\* `wait` time units (a timed-out poll has waited the whole timeout); work is the
\* time the rest of the pass takes; reloaded tells whether reload_dashboard returned
\* Ok, new_len the widgets it returned; pushed whether check_for_changes added one.
Frame(key, wait, work, reloaded, new_len, pushed) ==
    LET timeout == Max2(TickRate - f_elapsed, 0)
        elapsed == Min2(f_elapsed + wait + work, MaxElapsed)
        drawn == <<"render", "poll">>
    IN  /\ f_pc = "loop"
        /\ wait \in 0..timeout
        /\ key = "none" => wait = timeout
        /\ f_key' = key
        /\ IF key = "q"
           THEN \* break
                /\ f_pc' = "quit"
                /\ f_steps' = drawn
                /\ f_elapsed' = elapsed
                /\ UNCHANGED <<f_widgets, f_focused>>
           ELSE IF key = "ctrl_r"
           THEN \* reload_dashboard, then continue
                /\ f_steps' = drawn \o <<"reload_dashboard">>
                                  \o (IF reloaded THEN <<"replace_widgets">> ELSE << >>)
                /\ f_elapsed' = elapsed
                /\ IF reloaded
                   THEN f_widgets' = new_len /\ f_focused' = 0
                   ELSE UNCHANGED <<f_widgets, f_focused>>
                /\ UNCHANGED f_pc
           ELSE IF key = "tab"
           THEN \* focused_widget = (focused_widget + 1) % widgets.len(), then continue
                IF f_widgets = 0
                THEN /\ f_pc' = "panicked"
                     /\ f_steps' = drawn
                     /\ f_elapsed' = elapsed
                     /\ UNCHANGED <<f_widgets, f_focused>>
                ELSE /\ f_focused' = (f_focused + 1) % f_widgets
                     /\ f_steps' = drawn \o <<"focus">>
                     /\ f_elapsed' = elapsed
                     /\ UNCHANGED <<f_pc, f_widgets>>
           ELSE /\ f_steps' = drawn
                       \o (IF key = "char" /\ f_focused < f_widgets
                           THEN <<"handle_event">> ELSE << >>)
                       \o <<"check_for_changes">>
                       \o (IF elapsed >= TickRate THEN <<"update">> ELSE << >>)
                /\ f_widgets' = IF pushed /\ f_widgets < MaxWidgets
                                THEN f_widgets + 1 ELSE f_widgets
                /\ f_elapsed' = IF elapsed >= TickRate THEN 0 ELSE elapsed
                /\ UNCHANGED <<f_pc, f_focused>>
        /\ UNCHANGED nonLoopVars

LoopNext ==
    \E key \in Keys, wait \in 0..TickRate, work \in 0..1, reloaded \in BOOLEAN,
       new_len \in 0..MaxWidgets, pushed \in BOOLEAN :
        Frame(key, wait, work, reloaded, new_len, pushed)

(***************************************************************************)
(* A dashboard's layout: the configuration tree, the list of its widgets   *)
(* and the runtime tree built from it (config.rs, main.rs).                *)
(***************************************************************************)
\* ConfigConstraint: each of flex, fixed and percentage is << >> (None) or <<v>>.
\* ConfigLayoutItem: a Widget {name, constraint} or a Layout {direction, items}.
\* The widgets of the configuration trees: both flex and fixed given, fixed only,
\* percentage only, and no constraint at all.
ConfigItems(depth) ==
    LET Widget(name, flex, fixed, percentage) ==
            [item |-> "Widget", name |-> name,
             constraint |-> [flex |-> flex, fixed |-> fixed, percentage |-> percentage],
             dir |-> "-", items |-> << >>]
        Layout(dir, items) ==
            [item |-> "Layout", name |-> "-",
             constraint |-> [flex |-> << >>, fixed |-> << >>, percentage |-> << >>],
             dir |-> dir, items |-> items]
        Widgets == { Widget("cpu", <<2>>, <<9>>, << >>), Widget("memory", << >>, <<30>>, << >>),
                     Widget("foo", << >>, << >>, <<50>>), Widget("bar", << >>, << >>, << >>) }
        RECURSIVE ItemsAt(_)
        ItemsAt(d) ==
            IF d = 0 THEN Widgets
            ELSE Widgets \cup
                 { Layout(dir, items) :
                     dir \in Dirs,
                     items \in UNION {[1..n -> ItemsAt(d - 1)] : n \in 0..MaxConfig} }
    IN ItemsAt(depth)

\* ConfigConstraint::to_constraint: flex wins over fixed, fixed over percentage, and
\* with none of them the constraint is Flex(1).
to_constraint(c) ==
    IF c.flex # << >> THEN <<"Flex", c.flex[1]>>
    ELSE IF c.fixed # << >> THEN <<"Fixed", c.fixed[1]>>
    ELSE IF c.percentage # << >> THEN <<"Percentage", c.percentage[1]>>
    ELSE <<"Flex", 1>>

\* ConfigLayoutItem::to_layout_item
RECURSIVE to_layout_item(_)
to_layout_item(it) ==
    IF it.item = "Widget"
    THEN LET c == to_constraint(it.constraint) IN Leaf(c[1], c[2])
    ELSE Nested(LayoutOf(it.dir, [i \in 1..Len(it.items) |-> to_layout_item(it.items[i])]))

\* ConfigLayout::to_layout
to_layout(config) ==
    LayoutOf(config.dir, [i \in 1..Len(config.items) |-> to_layout_item(config.items[i])])

\* A flattening that lists the widgets of a level before those of its nested layouts.
RECURSIVE flatten_items_nested_last(_)
flatten_items_nested_last(items) ==
    IF items = << >> THEN << >>
    ELSE LET it == Head(items)
         IN IF it.item = "Widget"
            THEN <<it>> \o flatten_items_nested_last(Tail(items))
            ELSE flatten_items_nested_last(Tail(items)) \o flatten_items_nested_last(it.items)

\* flatten_items_recursive, with the result vector as its value.
RECURSIVE flatten_items_recursive(_)
flatten_items_recursive(items) ==
    IF items = << >> THEN << >>
    ELSE LET it == Head(items)
         IN (IF it.item = "Widget" THEN <<it>> ELSE flatten_items_recursive(it.items))
            \o flatten_items_recursive(Tail(items))

\* flatten_layout_items
flatten_layout_items(config) == flatten_items_recursive(config.items)

ConfIdle == g_config = LayoutOf("Vertical", << >>) /\ g_flat = << >> /\ g_layout = << >>

\* main after loading the configuration: the widgets are created from the flattened
\* items, then the configuration layout is converted.
ConvertLayout ==
    /\ g_flat = << >>
    /\ g_flat' = <<flatten_layout_items(g_config)>>
    /\ g_layout' = <<to_layout(g_config)>>
    /\ UNCHANGED g_config
    /\ UNCHANGED <<busVars, matchVars, contVars, regVars, layVars, appVars, wrapVars, loopVars>>

MatchIdle == m_topic = << >> /\ m_pattern = << >> /\ m_result = << >>

BusNext ==
    \/ \E pattern \in BusPatterns : SubscribeBegin(pattern)
    \/ \E s \in pending : SubscribeInsert(s)
    \/ \E id \in tokens : DropSubscription(id)
    \/ \E id \in rx_held : DropReceiver(id)
    \/ \E id \in rx_held : TryRecv(id)
    \/ \E p \in Publishers, topic \in BusTopics : PublishBegin(p, topic)
    \/ \E p \in Publishers : \E id \in pub_todo[p] : PublishStep(p, id)
    \/ \E p \in Publishers : PublishEnd(p)

InitBus == BusInit /\ MatchIdle /\ ContIdle /\ RegIdle /\ LayIdle /\ AppIdle /\ WrapIdle /\ LoopIdle
             /\ ConfIdle

SpecBus == InitBus /\ [][BusNext]_vars

InitCont == ContInit /\ BusInit /\ MatchIdle /\ RegIdle /\ LayIdle /\ AppIdle /\ WrapIdle /\ LoopIdle
             /\ ConfIdle

SpecContainer == InitCont /\ [][ContNext]_vars

InitReg == RegInit /\ BusInit /\ MatchIdle /\ ContIdle /\ LayIdle /\ AppIdle /\ WrapIdle /\ LoopIdle
             /\ ConfIdle

SpecRegistry == InitReg /\ [][RegNext]_vars

InitLay == LayInit /\ BusInit /\ MatchIdle /\ ContIdle /\ RegIdle /\ AppIdle /\ WrapIdle /\ LoopIdle
             /\ ConfIdle

SpecLayout == InitLay /\ [][LayNext]_vars

InitApp == AppInit /\ BusInit /\ MatchIdle /\ ContIdle /\ RegIdle /\ LayIdle /\ WrapIdle /\ LoopIdle
             /\ ConfIdle

SpecApp == InitApp /\ [][AppNext]_vars

SpecWatch == InitApp /\ [][WatchNext]_vars

InitWrap == WrapInit /\ BusInit /\ MatchIdle /\ ContIdle /\ RegIdle /\ LayIdle /\ AppIdle /\ LoopIdle
             /\ ConfIdle

SpecWrapper == InitWrap /\ [][WrapNext]_vars

InitLoop == LoopInit /\ BusInit /\ MatchIdle /\ ContIdle /\ RegIdle /\ LayIdle /\ AppIdle /\ WrapIdle
             /\ ConfIdle

SpecLoop == InitLoop /\ [][LoopNext]_vars

\* The loop goes on: nothing in it blocks longer than the poll's timeout.
SpecLoopFair == SpecLoop /\ WF_vars(LoopNext)

\* Every configuration tree of at most MaxDepth levels with at most MaxConfig items each.
InitConf ==
    /\ \E dir \in Dirs :
         \E items \in UNION {[1..n -> ConfigItems(MaxDepth - 1)] : n \in 0..MaxConfig} :
            g_config = LayoutOf(dir, items)
    /\ g_flat = << >> /\ g_layout = << >>
    /\ BusInit /\ MatchIdle /\ ContIdle /\ RegIdle /\ LayIdle /\ AppIdle /\ WrapIdle /\ LoopIdle

SpecConfig == InitConf /\ [][ConvertLayout]_vars

(***************************************************************************)
(* topic_matches applied to every pair of short strings                    *)
(***************************************************************************)
MaxLen == 3
Chars == {"a", "b", "*", "."}
Strings == UNION {[1..n -> Chars] : n \in 0..MaxLen}

MatchInit ==
    /\ m_topic \in Strings
    /\ m_pattern \in Strings
    /\ m_result = << >>

MatchCall ==
    /\ m_result = << >>
    /\ m_result' = <<topic_matches(m_topic, m_pattern)>>
    /\ UNCHANGED <<m_topic, m_pattern>>
    /\ UNCHANGED nonMatchVars

MatchNext == MatchCall

InitMatch == MatchInit /\ BusInit /\ ContIdle /\ RegIdle /\ LayIdle /\ AppIdle /\ WrapIdle /\ LoopIdle
             /\ ConfIdle

SpecMatch == InitMatch /\ [][MatchNext]_vars

(***************************************************************************)
(* Claims about the event bus                                              *)
(***************************************************************************)
\* Everything ever enqueued for the channel of subscribe call id, in order.
Enq(id) == received[id] \o chan[id]
Copies(payload, id) == Cardinality({i \in 1..Len(Enq(id)) : Enq(id)[i].payload = payload})
\* The Subscription token of subscribe call id has been dropped.
Dropped(id) == id \in DOMAIN chan /\ id \notin tokens /\ \A s \in pending : s.id # id

\* C1: while publish(e) runs, the table is the one it locked; each subscription of
\* that table the loop has visited and whose pattern matches e.topic holds exactly one
\* copy of e (same topic, same payload), or none if its Receiver is gone; every other
\* channel holds none. At the end of the loop this is true of the whole table.
C1_PublishDelivers ==
    \A p \in Publishers :
        pub_pc[p] = "loop" =>
            /\ pub_snap[p] = subscriptions
            /\ \A id \in DOMAIN chan :
                 LET e == pub_event[p]
                     n == Copies(e.payload, id)
                 IN  /\ \A i \in 1..Len(Enq(id)) :
                            Enq(id)[i].payload = e.payload => Enq(id)[i] = e
                     /\ IF /\ id \in DOMAIN pub_snap[p]
                           /\ id \notin pub_todo[p]
                           /\ topic_matches(e.topic, pub_snap[p][id])
                        THEN n = 1 \/ (n = 0 /\ id \notin rx_held)
                        ELSE n = 0

\* A publish at the end of its loop that skipped a matching subscription whose
\* Receiver was dropped and delivered to another matching one.
C1_Witness ==
    \E p \in Publishers :
        /\ pub_pc[p] = "loop" /\ pub_todo[p] = {}
        /\ \E i, j \in DOMAIN pub_snap[p] :
              /\ topic_matches(pub_event[p].topic, pub_snap[p][i])
              /\ i \notin rx_held /\ Copies(pub_event[p].payload, i) = 0
              /\ topic_matches(pub_event[p].topic, pub_snap[p][j])
              /\ Copies(pub_event[p].payload, j) = 1

\* C2: once a Subscription has been dropped, no step enqueues anything for it; a
\* try_recv on its Receiver yields the oldest event still queued (one published
\* before the drop) and, once the queue is drained, Disconnected.
C2_DropStopsDelivery ==
    [][\A id \in DOMAIN chan :
          Dropped(id) =>
              /\ Enq(id)' = Enq(id)
              /\ (last_recv'[id] # last_recv[id] \/ received'[id] # received[id]) =>
                    IF chan[id] # << >>
                    THEN /\ last_recv'[id] = <<"Ok", Head(chan[id])>>
                         /\ received'[id] = Append(received[id], Head(chan[id]))
                    ELSE last_recv'[id] = <<"Disconnected">>]_vars

\* A dropped subscription that received an event published before the drop, then
\* reported Disconnected, while a publish begun after the drop has finished its loop.
C2_Witness ==
    \E id \in DOMAIN chan, p \in Publishers :
        /\ Dropped(id)
        /\ received[id] # << >>
        /\ last_recv[id] = <<"Disconnected">>
        /\ pub_pc[p] = "loop" /\ pub_todo[p] = {}

\* C4: in every channel, the events of one publisher stand in the order of its
\* publish calls (payload = <<publisher, number of the call>>).
C4_PublisherOrder ==
    \A id \in DOMAIN chan :
        \A i, j \in 1..Len(Enq(id)) :
            (i < j /\ Enq(id)[i].payload[1] = Enq(id)[j].payload[1])
                => Enq(id)[i].payload[2] < Enq(id)[j].payload[2]

\* A receiver that took out two events of one publisher with another publisher's
\* event between them.
C4_Witness ==
    \E id \in DOMAIN received :
        /\ Len(received[id]) = 3
        /\ received[id][1].payload[1] = received[id][3].payload[1]
        /\ received[id][1].payload[1] # received[id][2].payload[1]

(***************************************************************************)
(* Claims about the WidgetContainer                                        *)
(***************************************************************************)
IsLifecycleHook(h) == h[1] \in {"on_mount", "on_unmount"}
IsLifecycleCall(c) == c[1] \in {"mount", "unmount"}
LifecycleHooks == SelectSeq(c_hooks, IsLifecycleHook)
LifecycleCalls == SelectSeq(c_calls, IsLifecycleCall)

\* C5: the mount and unmount hooks invoked so far alternate, starting with
\* on_mount, whatever mount(), unmount() and update() calls were made; the container
\* is mounted exactly when the latest of them is on_mount, which is exactly when the
\* latest mount()/unmount() call was mount().
C5_HooksAlternate ==
    /\ \A i \in 1..Len(LifecycleHooks) :
          LifecycleHooks[i] = IF i % 2 = 1 THEN <<"on_mount">> ELSE <<"on_unmount">>
    /\ c_mounted = (Len(LifecycleHooks) % 2 = 1)
    /\ c_mounted = (LifecycleCalls # << >>
                      /\ LifecycleCalls[Len(LifecycleCalls)] = <<"mount">>)

\* unmount() on a never-mounted container, then mount() twice and unmount() twice:
\* one on_mount and one on_unmount were invoked.
C5_Witness ==
    /\ LifecycleCalls = << <<"unmount">>, <<"mount">>, <<"mount">>, <<"unmount">> >>
    /\ LifecycleHooks = << <<"on_mount">>, <<"on_unmount">> >>

IsUpdateHook(h) == h[1] = "on_update"
IsTimedCall(c) == c[1] \in {"new", "update"}
UpdateHooks == SelectSeq(c_hooks, IsUpdateHook)
\* The construction followed by the update() calls: <<"new", t>>, <<"update", t, needs>>..
TimedCalls == SelectSeq(c_calls, IsTimedCall)
\* The hook the k-th timed call (k > 1, an update) owes: its delta is the time since
\* the timed call before it.
OwedHook(k) == <<"on_update", TimedCalls[k][2] - TimedCalls[k - 1][2]>>
WantsHook(k) == k > 1 /\ TimedCalls[k][3]
RECURSIVE OwedHooks(_)
OwedHooks(k) ==
    IF k = 0 THEN << >>
    ELSE OwedHooks(k - 1) \o (IF WantsHook(k) THEN <<OwedHook(k)>> ELSE << >>)

\* C6: last_update is the time of the latest update() call (of the construction
\* before the first one), and the on_update hooks invoked so far are, in order, one
\* for each update() call in which needs_update() returned true, each with the time
\* elapsed since the update() call before it (or the construction).
C6_UpdateAdvances ==
    /\ c_calls # << >> => c_last_update = TimedCalls[Len(TimedCalls)][2]
    /\ UpdateHooks = OwedHooks(Len(TimedCalls))

\* Two update() calls at different times after the construction, the first with
\* needs_update() false: the hook of the second got the time since the first.
C6_Witness ==
    \E k \in 2..Len(TimedCalls) - 1 :
        /\ ~TimedCalls[k][3] /\ TimedCalls[k + 1][3]
        /\ TimedCalls[k][2] > TimedCalls[k - 1][2]
        /\ TimedCalls[k + 1][2] > TimedCalls[k][2]
        /\ c_hooks[Len(c_hooks)] = <<"on_update", TimedCalls[k + 1][2] - TimedCalls[k][2]>>
        /\ c_last_update = TimedCalls[k + 1][2]

(***************************************************************************)
(* Claims about the WidgetRegistry                                         *)
(***************************************************************************)
Results == {r_log[i].result : i \in 1..Len(r_log)}

\* C7: a create(name) call returns and removes the pre-built instance registered
\* under name, one that no earlier create call returned; failing that, it returns a
\* new instance made by the factory registered under name, which stays registered;
\* failing that, it returns None and the registry is unchanged.
C7_Create ==
    [][Len(r_log') = Len(r_log) + 1 =>
          LET call == r_log'[Len(r_log')]
          IN  /\ r_log' = Append(r_log, call)
              /\ r_factories' = r_factories
              /\ IF call.name \in DOMAIN r_widgets
                 THEN /\ call.result = <<"Some", r_widgets[call.name]>>
                      /\ call.result \notin Results
                      /\ r_widgets' = Without(r_widgets, call.name)
                 ELSE IF call.name \in DOMAIN r_factories
                 THEN /\ call.result = <<"Some", <<"made", r_made, r_factories[call.name]>> >>
                      /\ call.result \notin Results
                      /\ r_widgets' = r_widgets
                 ELSE /\ call.result = <<"None">>
                      /\ r_widgets' = r_widgets
                      /\ r_made' = r_made]_vars

\* Three create calls under one name that has a factory and had one pre-built
\* instance: the first two returned the instance, then one made by the factory; a
\* third one under a name without either returned None.
C7_Witness ==
    /\ Len(r_log) = 3
    /\ r_log[1].name = r_log[2].name
    /\ r_log[1].result[1] = "Some" /\ r_log[1].result[2][1] = "prebuilt"
    /\ r_log[2].result[1] = "Some" /\ r_log[2].result[2][1] = "made"
    /\ r_log[3].result = <<"None">>

(***************************************************************************)
(* Claims about topic_matches                                              *)
(***************************************************************************)
Star == <<"*">>

\* The characterisation as the specification's section 8 words it.
ClaimedMatch(T, P) ==
    \/ T = P
    \/ LET tp == Split(T)
           pp == Split(P)
       IN  /\ pp[Len(pp)] = Star
           /\ Len(pp) - 1 =< Len(tp)
           /\ \A i \in 1..Len(pp) : pp[i] # Star => (i =< Len(tp) /\ tp[i] = pp[i])

\* The characterisation the code satisfies.
AmendedMatch(T, P) ==
    \/ T = P
    \/ LET tp == Split(T)
           pp == Split(P)
       IN  /\ Len(pp) =< Len(tp)
           /\ \A i \in 1..Len(pp) : pp[i] # Star => tp[i] = pp[i]
           /\ (pp[Len(pp)] = Star \/ Len(pp) = Len(tp))

\* C3 as stated: topic_matches(T, P) iff T = P, or P's last segment is `*`, every
\* non-wildcard segment of P equals the segment of T at its position, and
\* (segment count of P) - 1 =< segment count of T.
C3_AsStated == m_result # << >> => (m_result[1] = ClaimedMatch(m_topic, m_pattern))

\* C3 amended: topic_matches(T, P) iff T = P, or P has at most as many segments as
\* T, every segment of P other than `*` equals the segment of T at its position, and
\* P's last segment is `*` or P and T have the same number of segments.
C3_Amended == m_result # << >> => (m_result[1] = AmendedMatch(m_topic, m_pattern))

\* topic_matches("a.b", "a.*") has been computed and is true.
C3_Witness ==
    /\ m_topic = <<"a", ".", "b">>
    /\ m_pattern = <<"a", ".", "*">>
    /\ m_result = <<TRUE>>

(***************************************************************************)
(* Layout claims.                                                          *)
(***************************************************************************)
Returned == l_result # << >> /\ l_result[1] = "Ok"
MajorSize(rect, dir) == IF dir = "Horizontal" THEN rect.width ELSE rect.height

RECURSIVE LeafPathsFrom(_, _)
\* The Constraint leaves below items[i..], depth first and left to right, each as
\* the item indexes from the root down to it.
LeafPathsFrom(items, i) ==
    IF i > Len(items) THEN << >>
    ELSE (IF items[i].item = "Constraint" THEN << <<i>> >>
          ELSE LET below == LeafPathsFrom(items[i].items, 1)
               IN  [k \in 1..Len(below) |-> <<i>> \o below[k]])
         \o LeafPathsFrom(items, i + 1)

RECURSIVE SlotOf(_, _, _)
\* The rectangle the node at path is given by the splits of its ancestors.
SlotOf(layout, area, path) ==
    LET rect == SplitOf(layout, area).rects[path[1]]
        it == layout.items[path[1]]
    IN  IF Len(path) = 1 THEN rect
        ELSE SlotOf(LayoutOf(it.dir, it.items), rect, Tail(path))

\* C8: whenever Layout::calculate returns, it returns exactly one rectangle per
\* Constraint leaf of the tree, in the depth-first left-to-right order of the leaves,
\* each being the leaf's own slot; a Nested node and an empty item list add nothing.
C8_OneRectPerLeaf ==
    Returned =>
        LET paths == LeafPathsFrom(l_layout.items, 1)
            out == l_result[2]
        IN  /\ Len(out) = Len(paths)
            /\ \A k \in 1..Len(paths) : out[k] = SlotOf(l_layout, l_area, paths[k])

\* C8 witness: a returned run on a tree with a leaf, then a Nested node of several
\* leaves, then a leaf.
C8_Witness ==
    /\ Returned
    /\ Len(l_layout.items) = 3
    /\ l_layout.items[1].item = "Constraint"
    /\ l_layout.items[2].item = "Nested"
    /\ Len(l_layout.items[2].items) = 3
    /\ l_layout.items[3].item = "Constraint"
    /\ Len(l_result[2]) = 5
    /\ l_result[2][5].width > 0

\* What the walk of C10 gives the first n items of a node: the sizes of its Fixed and
\* Percentage items (0 stands for the others) and what remains.
RECURSIVE ClaimedFirstPass(_, _, _)
ClaimedFirstPass(items, n, total) ==
    IF n = 0 THEN [sizes |-> << >>, remaining |-> total]
    ELSE LET acc == ClaimedFirstPass(items, n - 1, total)
             it == items[n]
             got == IF it.kind = "Fixed" THEN Min2(it.v, acc.remaining)
                    ELSE IF it.kind = "Percentage"
                    THEN Min2((total * Min2(it.v, 100)) \div 100, acc.remaining)
                    ELSE 0
         IN  [sizes |-> Append(acc.sizes, got), remaining |-> acc.remaining - got]

FirstPassAsClaimed(s) ==
    LET total == MajorSize(s.area, s.dir)
        claimed == ClaimedFirstPass(s.items, Len(s.items), total)
    IN  \A i \in 1..Len(s.items) :
            s.items[i].kind \in {"Fixed", "Percentage"}
                => MajorSize(s.rects[i], s.dir) = claimed.sizes[i]

SecondPassAsClaimed(s) ==
    LET n == Len(s.items)
        total == MajorSize(s.area, s.dir)
        flex == {i \in 1..n : IsFlexItem(s.items[i])}
        remaining == total - SumTo([i \in 1..n |-> IF i \in flex THEN 0
                                                   ELSE MajorSize(s.rects[i], s.dir)], n)
        total_weight == SumTo([i \in 1..n |-> IF i \in flex THEN Weight(s.items[i]) ELSE 0], n)
        share == [i \in 1..n |-> IF i \in flex
                                 THEN Max2((remaining * Weight(s.items[i])) \div total_weight, 1)
                                 ELSE 0]
        leftover == remaining - SumTo(share, n)
        last == CHOOSE i \in flex : \A j \in flex : j =< i
    IN  (flex # {} /\ remaining > 0 /\ total_weight > 0) =>
            \A i \in flex :
                MajorSize(s.rects[i], s.dir)
                    = share[i] + (IF i = last /\ leftover > 0 THEN leftover ELSE 0)

\* C9 as stated: in every node of a returned run whose flex pool is non-empty with
\* remaining > 0, each flex/nested item has floor(remaining * weight / total_weight),
\* at least 1, and the leftover goes to the last flex/nested item only.
C9_AsStated ==
    Returned => \A k \in 1..Len(l_splits) : SecondPassAsClaimed(l_splits[k])

\* C10 as stated: in every node of a returned run, Fixed(n) has min(n, remaining) and
\* Percentage(p) has min(floor(total * min(p, 100) / 100), remaining), remaining
\* starting at total and reduced by each amount in item order.
C10_AsStated ==
    Returned => \A k \in 1..Len(l_splits) : FirstPassAsClaimed(l_splits[k])

\* Without an overflow both hold (the divergences of C9 and C10 are overflows only).
NoOverflow == ~calculate_recursive(l_layout, l_area).ovf
C9_WithoutOverflow == NoOverflow => C9_AsStated
C10_WithoutOverflow == NoOverflow => C10_AsStated

MajorStart(rect, dir) == IF dir = "Horizontal" THEN rect.x ELSE rect.y
MinorStart(rect, dir) == IF dir = "Horizontal" THEN rect.y ELSE rect.x
CrossSize(rect, dir) == IF dir = "Horizontal" THEN rect.height ELSE rect.width

PositionsAsClaimed(s) ==
    LET n == Len(s.items)
        sizes == [i \in 1..n |-> MajorSize(s.rects[i], s.dir)]
    IN  \A i \in 1..n :
            /\ MajorStart(s.rects[i], s.dir) = MajorStart(s.area, s.dir) + SumTo(sizes, i - 1)
            /\ MinorStart(s.rects[i], s.dir) = MinorStart(s.area, s.dir)
            /\ CrossSize(s.rects[i], s.dir) = CrossSize(s.area, s.dir)

\* C11 as stated: in every node of a returned run, item i starts on the major axis at
\* the container's origin plus the sizes of the items before it, and has the
\* container's minor-axis offset and cross-axis size.
C11_AsStated ==
    Returned => \A k \in 1..Len(l_splits) : PositionsAsClaimed(l_splits[k])

\* Without an overflow it holds (the divergence of C11 is the overflow of the offset).
C11_WithoutOverflow == NoOverflow => C11_AsStated

NestedExample ==
    LayoutOf("Horizontal",
             << Leaf("Flex", 1),
                Nested(LayoutOf("Vertical",
                                <<Leaf("Flex", 1), Leaf("Flex", 1), Leaf("Flex", 1)>>)) >>)

\* C12 as stated: the nested example over the 100x20 area returns 4 rectangles, all
\* of width 50, the last three of heights 6, 7, 7.
C12_AsStated ==
    (Returned /\ l_layout = NestedExample /\ l_area = Rect(0, 0, 100, 20)) =>
        /\ Len(l_result[2]) = 4
        /\ \A i \in 1..4 : l_result[2][i].width = 50
        /\ <<l_result[2][2].height, l_result[2][3].height, l_result[2][4].height>>
               = <<6, 7, 7>>

\* What the code returns for the example: heights 6, 6, 8.
C12_Computed ==
    (Returned /\ l_layout = NestedExample /\ l_area = Rect(0, 0, 100, 20)) =>
        /\ Len(l_result[2]) = 4
        /\ \A i \in 1..4 : l_result[2][i].width = 50
        /\ <<l_result[2][2].height, l_result[2][3].height, l_result[2][4].height>>
               = <<6, 6, 8>>

(***************************************************************************)
(* Plugin claims.                                                          *)
(***************************************************************************)
IsReload == p_op.op = "reload"
ReloadOk == IsReload /\ p_op.result[1] = "Ok"
ReloadFailed == IsReload /\ p_op.result[1] = "Err"
VersionMismatches(lib) == lib.opens /\ lib.api_version # 1

\* The handles of the plugin widgets in the live list, in the registry, and in the
\* list load_all returned until main has registered it.
InList(list) == {list[i].widget.h : i \in {j \in 1..Len(list) : list[j].widget.plugin}}
Held ==
    InList(p_widgets) \cup {p_registry[n].h : n \in DOMAIN p_registry}
        \cup (IF p_phase = "loaded" /\ p_loaded[1] = "Ok" THEN InList(p_loaded[2]) ELSE {})

\* C13: a library whose metadata reports an api_version other than 1 is rejected
\* with VersionMismatch, its create entry point is never called, and no widget of it
\* is in load_all's result, the registry or the live list.
C13_VersionRejected ==
    /\ (IsReload /\ VersionMismatches(p_op.lib)) =>
          /\ p_op.result = <<"Err", "VersionMismatch">>
          /\ Count(p_trace, "create", p_next) = 0
          /\ p_next \notin p_created
          /\ p_next \notin Held
    /\ \A k \in 1..Len(p_attempted) :
          VersionMismatches(p_dir[p_attempted[k].i].lib) =>
              /\ p_attempted[k].result = <<"Err", "VersionMismatch">>
              /\ p_attempted[k].id \notin p_created
              /\ p_attempted[k].id \notin Held

\* C13 witness: load_all met a library of api_version 2 and loaded another plugin,
\* whose live widget a hot-reload then found and tried to replace with a library of
\* api_version 2.
C13_Witness ==
    /\ IsReload /\ p_op.lib.api_version = 2 /\ p_op.idx # 0
    /\ \E k \in 1..Len(p_attempted) : p_dir[p_attempted[k].i].lib.api_version = 2
    /\ \E k \in 1..Len(p_trace) : p_trace[k] = <<"metadata", p_next>>

\* A step that is a hot-reload.
ReloadStep == p_reloads' = p_reloads + 1 /\ p_op'.op = "reload"

\* What a reload step that found the widget at index i leaves of the list: the new
\* instance at i, the same length, every other container as it was, and no mount or
\* unmount hook of any instance but the old and the new one.
PositionStable ==
    LET i == p_op'.idx
    IN  /\ p_widgets[i].name = p_op'.stem
        /\ Len(p_widgets') = Len(p_widgets)
        /\ p_widgets'[i].widget = PluginWidget(p_next')
        /\ \A j \in 1..Len(p_widgets) : j # i => p_widgets'[j] = p_widgets[j]
        /\ \A k \in 1..Len(p_trace') :
              p_trace'[k][1] \in {"on_mount", "on_unmount"}
                  => p_trace'[k][2] \in {p_widgets[i].widget.h, p_next'}

\* C14 as stated: a successful hot-reload that finds a widget named as the plugin at
\* index i puts the new instance at index i, keeps the length of the list, and leaves
\* every other container as it was: none is moved, replaced, mounted or unmounted.
C14_AsStated ==
    [][(ReloadStep /\ p_op'.result[1] = "Ok" /\ p_op'.idx # 0) => PositionStable]_vars

\* It holds of the hot-reloads that start with every live container mounted.
C14_WhenAllMounted ==
    [][(ReloadStep /\ p_op'.result[1] = "Ok" /\ p_op'.idx # 0
            /\ \A j \in 1..Len(p_widgets) : p_widgets[j].mounted) => PositionStable]_vars

\* The containers of the live list that hold the instance a reload just created.
NewContainers == {i \in 1..Len(p_widgets) : p_widgets[i].widget = PluginWidget(p_next)}

\* The new instance has a container, it is mounted, and its mount hook ran once.
NewInstanceMounted ==
    /\ NewContainers # {}
    /\ \A i \in NewContainers : p_widgets[i].mounted
    /\ p_mounted[p_next] = 1

\* C15 as stated: after every successful hot-reload, replacement or first load, the
\* container that holds the new instance is mounted and the instance's mount hook has
\* run exactly once, whatever the file stem, the metadata name and the live names are.
C15_AsStated == ReloadOk => NewInstanceMounted

\* It holds of the reloads whose library reports the name the file name gives.
C15_WhenNamesAgree == (ReloadOk /\ p_op.lib.name = p_op.stem) => NewInstanceMounted

\* The events a reload owes the widget it found, in order, before anything else.
OwedTeardown(old) ==
    (IF old.mounted THEN << <<"on_unmount", old.widget.h>> >> ELSE << >>)
        \o (IF old.widget.plugin
            THEN << <<"destroy", old.widget.h>>, <<"close", old.widget.h>> >>
            ELSE << >>)
        \o << <<"remove_entry", 0>> >>

RemoveAt(list, i) ==
    [j \in 1..(Len(list) - 1) |-> IF j < i THEN list[j] ELSE list[j + 1]]

\* A hot-reload step that found the widget and whose load of the replacement failed.
FailedAfterTeardown == ReloadStep /\ p_op'.idx # 0 /\ p_op'.result[1] = "Err"

\* C17 as stated: a hot-reload that fails after the old instance was torn down leaves
\* the widget absent: the live list afterwards is the list before without the
\* widget's element, nothing standing in its place.
C17_AsStated ==
    [][FailedAfterTeardown => p_widgets' = RemoveAt(p_widgets, p_op'.idx)]_vars

\* What the reload leaves: the list keeps its length, and the slot of the widget
\* holds an unmounted container named "placeholder" with a CpuWidget.
C17_Computed ==
    [][FailedAfterTeardown =>
          /\ p_widgets' = [p_widgets EXCEPT ![p_op'.idx] = Placeholder]
          /\ ~p_widgets'[p_op'.idx].widget.plugin
          /\ p_phase' = "running"]_vars

\* The number of wrappers that own library h: in the live list, in the registry, and
\* in the list load_all returned until main has registered it.
OwnersIn(list, h) == Cardinality({i \in 1..Len(list) : list[i].widget = PluginWidget(h)})
Owners(h) ==
    OwnersIn(p_widgets, h)
        + Cardinality({n \in DOMAIN p_registry : p_registry[n] = PluginWidget(h)})
        + (IF p_phase = "loaded" /\ p_loaded[1] = "Ok" THEN OwnersIn(p_loaded[2], h) ELSE 0)

\* The libraries a step had a wrapper for: those held before it and those whose load
\* returned a wrapper during it.
WrappedIn(trace) == Held \cup {h \in 1..p_next' : Count(trace, "insert_entry", h) > 0}

\* C18: a wrapper that is destroyed has the plugin's destroy called exactly once on
\* its handle, at that time and never again; the library it owns is released right
\* after that call and not before; a wrapper that stays has neither; and no library
\* is owned by more than one wrapper.
C18_DestroyThenRelease ==
    [][LET t == p_trace'
           wrapped == WrappedIn(t)
       IN  /\ \A h \in wrapped \ Held' :
                 /\ Count(t, "destroy", h) = 1
                 /\ Count(t, "close", h) = 1
                 /\ p_destroyed'[h] = 1
                 /\ \A k \in 1..Len(t) :
                       t[k] = <<"destroy", h>> => k < Len(t) /\ t[k + 1] = <<"close", h>>
           /\ \A h \in Held' :
                 /\ Count(t, "destroy", h) = 0
                 /\ Count(t, "close", h) = 0
                 /\ p_destroyed'[h] = 0
           /\ \A h \in 1..p_next' :
                 /\ Count(t, "destroy", h) > 0 => h \in wrapped
                 /\ Owners(h)' =< 1]_vars

\* C18 witness: a hot-reload destroyed the wrapper it found and released its library
\* right after, while two other wrappers own a library each.
C18_Witness ==
    /\ IsReload /\ p_op.idx # 0
    /\ \E k \in 1..(Len(p_trace) - 1) :
          /\ p_trace[k][1] = "destroy"
          /\ p_trace[k + 1] = <<"close", p_trace[k][2]>>
          /\ p_destroyed[p_trace[k][2]] = 1
          /\ p_trace[k][2] \notin Held
    /\ Cardinality(Held) >= 2
    /\ \A h \in Held : Owners(h) = 1

\* C19 as stated: every handle a create entry point returned has been passed to
\* destroy exactly once by the time the host has shut down, and never twice before.
C19_AsStated ==
    /\ \A h \in p_created : p_destroyed[h] =< 1
    /\ p_phase = "down" => \A h \in p_created : p_destroyed[h] = 1

\* No handle is destroyed twice, and none that create did not return.
C19_AtMostOnce ==
    \A h \in 1..p_next : p_destroyed[h] =< 1 /\ (p_destroyed[h] = 1 => h \in p_created)

\* A load that fails after create: the library is released with the handle in it.
FailsAfterCreate(trace, h) ==
    \E k \in 1..(Len(trace) - 1) : trace[k] = <<"create", h>> /\ trace[k + 1] = <<"close", h>>

\* The handles that are never destroyed are those of the loads that failed after
\* create: every other handle created in a step is owned by a wrapper or destroyed
\* in that step, and shutdown destroys every handle a wrapper owns.
C19_ExceptFailedAfterCreate ==
    [][/\ \A h \in 1..p_next' :
             (Count(p_trace', "create", h) > 0 /\ ~FailsAfterCreate(p_trace', h))
                 => (h \in Held' \/ p_destroyed'[h] = 1)
       /\ p_phase' = "down" => (Held' = {} /\ \A h \in Held : p_destroyed'[h] = 1)]_vars

\* The entries of the plugin directory with the native-library extension.
PluginEntries == {i \in 1..Len(p_dir) : p_dir[i].ext = dll_extension}

\* The loads load_all attempted that returned a widget, in order.
LoadedOk == SelectSeq(p_attempted, LAMBDA a : a.result[1] = "Ok")

\* load_all attempted every plugin entry, and returned one widget for each load that
\* succeeded: the widget of that load, under the name its library reports.
OneWidgetPerLoad ==
    /\ {p_attempted[k].i : k \in 1..Len(p_attempted)} = PluginEntries
    /\ \A k \in 1..Len(p_attempted) :
          p_attempted[k].result[1] = "Ok" <=> p_dir[p_attempted[k].i].lib \in
                                                  {Good(n) : n \in PluginNames}
    /\ p_loaded[1] = "Ok"
    /\ Len(p_loaded[2]) = Len(LoadedOk)
    /\ \A k \in 1..Len(LoadedOk) :
          p_loaded[2][k] = [name |-> p_dir[LoadedOk[k].i].lib.name,
                            widget |-> PluginWidget(LoadedOk[k].id)]

\* C20 as stated: load_all attempts a load for every file of the plugin directory
\* with the native-library extension, and its result holds exactly one widget per
\* file that loaded, whatever else the directory holds.
C20_AsStated == p_phase = "loaded" => OneWidgetPerLoad

\* It holds of the directories whose entries can all be read.
C20_WithoutEntryError ==
    (p_phase = "loaded" /\ \A i \in 1..Len(p_dir) : p_dir[i].readable) => OneWidgetPerLoad

(***************************************************************************)
(* Shutdown and bookkeeping claims.                                        *)
(***************************************************************************)
\* The positions of an event kind in the events of the last operation.
At(what) == {k \in 1..Len(p_trace) : p_trace[k][1] = what}
Before(a, b) == \A i \in At(a), j \in At(b) : i < j

\* The shutdown steps of the manager occur once each, in their order.
ManagerStepsInOrder ==
    /\ Cardinality(At("unwatch")) = 1
    /\ Cardinality(At("clear_entries")) = 1
    /\ Cardinality(At("remove_temp_dir")) = 1
    /\ Before("unwatch", "clear_entries")
    /\ Before("clear_entries", "remove_temp_dir")

\* C21 as stated: on shutdown the watcher is stopped, then the entries are dropped,
\* by which point every outstanding instance has had destroy called and its library
\* unloaded, then the temporary directory is removed; no destroy and no unload
\* comes after the removal of the temporary directory.
C21_AsStated ==
    p_phase = "down" =>
        /\ ManagerStepsInOrder
        /\ Before("destroy", "remove_temp_dir")
        /\ Before("close", "remove_temp_dir")

\* What shutdown does: the manager's three steps in order, and then, when main
\* returns, the destroy and the unload of every instance still owned.
C21_Computed ==
    p_phase = "down" =>
        /\ ManagerStepsInOrder
        /\ Before("on_unmount", "unwatch")
        /\ Before("remove_temp_dir", "destroy")
        /\ Before("remove_temp_dir", "close")

\* The name of the plugin that produced each instance a wrapper owns.
HeldNames ==
    {p_widgets[i].name : i \in {j \in 1..Len(p_widgets) : p_widgets[j].widget.plugin}}
        \cup DOMAIN p_registry
        \cup (IF p_phase = "loaded" /\ p_loaded[1] = "Ok"
              THEN {p_loaded[2][i].name : i \in 1..Len(p_loaded[2])} ELSE {})

\* C22 as stated: a plugin's bookkeeping entry is destroyed only after every widget
\* instance of the plugin has been destroyed: while an instance is owned its entry
\* is in the table, and no operation destroys an instance after it removed entries.
C22_AsStated ==
    /\ HeldNames \subseteq p_plugins
    /\ Before("destroy", "clear_entries")
    /\ Before("destroy", "remove_entry")

\* The entry exists from the successful load: load_all and a successful reload leave
\* an entry under the name of every plugin they loaded.
C22_EntryOnLoad ==
    /\ (p_phase = "loaded" /\ p_loaded[1] = "Ok") =>
           \A i \in 1..Len(p_loaded[2]) : p_loaded[2][i].name \in p_plugins
    /\ ReloadOk => p_op.result[2] \in p_plugins

(***************************************************************************)
(* Containment of the rectangles.                                          *)
(***************************************************************************)
\* rect lies inside area.
Inside(rect, area) ==
    /\ rect.x >= area.x /\ rect.x + rect.width =< area.x + area.width
    /\ rect.y >= area.y /\ rect.y + rect.height =< area.y + area.height

\* The major-axis sizes of the items of split s sum to at most its extent.
SizesFit(s) ==
    SumTo([i \in 1..Len(s.rects) |-> MajorSize(s.rects[i], s.dir)], Len(s.rects))
        =< MajorSize(s.area, s.dir)

RectanglesContained ==
    /\ \A i \in 1..Len(l_result[2]) : Inside(l_result[2][i], l_area)
    /\ \A k \in 1..Len(l_splits) : SizesFit(l_splits[k])

FlexItems(s) == {i \in 1..Len(s.items) : IsFlexItem(s.items[i])}

\* It holds, overflow apart, of the layouts whose nodes have at most one flex item
\* each: a single flex item gets what remains, and the minimum of 1 adds nothing.
C29_WithOneFlexItem ==
    (Returned /\ NoOverflow /\ \A k \in 1..Len(l_splits) : Cardinality(FlexItems(l_splits[k])) =< 1)
        => RectanglesContained

(***************************************************************************)
(* Ownership of the subscriptions.                                         *)
(***************************************************************************)
\* The ids drawn by subscribe calls that have not inserted their entry yet.
PendingIds == {s.id : s \in pending}

\* C28: every subscribe call inserts an entry under an id no other live entry, token
\* or call in progress has, and an entry leaves the table only in the step that
\* drops its own token: no drop, subscribe or publish step removes or alters the
\* entry of another subscription.
C28_EntryOwnedByToken ==
    [][/\ \A id \in DOMAIN subscriptions :
             /\ id \in DOMAIN subscriptions' => subscriptions'[id] = subscriptions[id]
             /\ id \notin DOMAIN subscriptions' => (id \in tokens /\ tokens' = tokens \ {id})
       /\ \A id \in DOMAIN subscriptions' \ DOMAIN subscriptions :
             /\ id \in PendingIds /\ id \notin tokens /\ id \in tokens'
             /\ \A s, t \in pending : s.id = t.id => s = t
       /\ \A id \in tokens \ tokens' :
             DOMAIN subscriptions' = DOMAIN subscriptions \ {id}
       /\ \A id \in PendingIds' \ PendingIds :
             id \notin DOMAIN subscriptions \cup tokens \cup PendingIds]_vars

\* C28 witness: of two subscriptions one has dropped its token and lost its entry,
\* the other still has its entry, the only one a publish in its loop finds.
C28_Witness ==
    \E a, b \in DOMAIN chan :
        /\ a # b
        /\ Dropped(a)
        /\ b \in tokens /\ b \in DOMAIN subscriptions
        /\ \E p \in Publishers : pub_pc[p] = "loop" /\ DOMAIN pub_snap[p] = {b}

(***************************************************************************)
(* Construction of the manager.                                            *)
(***************************************************************************)
\* C23 as stated: PluginManager::new returns a usable manager whether or not the
\* watcher could be created, with hot-reload disabled if it could not; it never
\* panics, and startup goes on.
C23_AsStated ==
    /\ p_phase # "panicked"
    /\ p_op.op = "new" => (p_op.result[1] = "Ok" /\ p_phase = "start")

\* When the stand-in watcher can be created, the manager is returned, startup goes
\* on, and no hot-reload ever happens.
C23_WhenStandInIsCreated ==
    [][/\ (p_op'.op = "new" /\ p_op'.result # <<"Err", "panic">>)
             => (p_phase' = "start" /\ p_watcher' \in {"live", "disabled"})
       /\ p_watcher = "disabled" => (~ReloadStep /\ p_watcher' = "disabled")]_vars

(***************************************************************************)
(* The live list and the leaves of the layout.                             *)
(***************************************************************************)
\* The names of the containers of the live list, in order.
LiveNames == [i \in 1..Len(p_widgets) |-> p_widgets[i].name]

\* C24 as stated: at every render the live list corresponds 1:1 and in order with the
\* leaves of the active layout: as many widgets as leaves, the widget at index i the
\* one the configuration names for leaf i (the render loop draws widget i in
\* rectangle i), after startup with any configuration, config reload and hot-reload.
C24_AsStated == p_phase = "running" => LiveNames = p_config

RECURSIVE IsSubsequence(_, _)
\* a is b with some elements left out.
IsSubsequence(a, b) ==
    IF a = << >> THEN TRUE
    ELSE IF b = << >> THEN FALSE
    ELSE IF Head(a) = Head(b) THEN IsSubsequence(Tail(a), Tail(b))
    ELSE IsSubsequence(a, Tail(b))

\* What startup and a config reload give: the widgets of the names the registry
\* could create, in the order of the leaves, the other leaves left without a widget;
\* all leaves have theirs exactly when every name could be created.
C24_CreatedInOrder ==
    (p_phase = "running" /\ p_op.op \in {"build", "config_reload"} /\ p_op.result[1] = "Ok")
        => /\ IsSubsequence(LiveNames, p_config)
           /\ Len(p_widgets) = Len(p_config) => LiveNames = p_config
           /\ \A i \in 1..Len(p_config) :
                 p_config[i] \in Builtins => \E j \in 1..Len(p_widgets) : LiveNames[j] = p_config[i]

(***************************************************************************)
(* The lifecycle of the containers in the host.                            *)
(***************************************************************************)
\* Every container of the live list is mounted.
AllMounted == \A i \in 1..Len(p_widgets) : p_widgets[i].mounted

\* The plugin instances whose containers a step takes out of the live list had their
\* unmount hook invoked once in it, before their destroy.
UnmountedOnceBeforeDestroy ==
    \A h \in InList(p_widgets) \ InList(p_widgets') :
        /\ Count(p_trace', "on_unmount", h) = 1
        /\ Count(p_trace', "destroy", h) = 1
        /\ \A i, j \in 1..Len(p_trace') :
              (p_trace'[i] = <<"on_unmount", h>> /\ p_trace'[j] = <<"destroy", h>>) => i < j

\* C25 as stated: while the main loop runs (it updates and renders every container
\* of the live list) every container of the list is mounted, and a container leaves
\* the list with its unmount hook invoked exactly once before it is destroyed, across
\* startup, config reload, hot-reload, failed or not, and quit.
C25_AsStated ==
    [][/\ p_phase' = "running" => AllMounted'
       /\ UnmountedOnceBeforeDestroy]_vars

\* A hot-reload that fails after the teardown, or whose library reports another name
\* than the file's.
ReloadLeavesUnmounted ==
    /\ ReloadStep
    /\ \/ p_op'.result[1] = "Err" /\ p_op'.idx # 0
       \/ p_op'.result[1] = "Ok" /\ p_op'.lib.name # p_op'.stem

\* Every other step keeps the lifecycle: from a list of mounted containers it leads
\* to one, and what it takes out it unmounts once before the destroy.
C25_ExceptThoseReloads ==
    [][(AllMounted /\ ~ReloadLeavesUnmounted) =>
          /\ p_phase' = "running" => AllMounted'
          /\ UnmountedOnceBeforeDestroy]_vars

(***************************************************************************)
(* C26: the wrapper forwards every Widget capability.                      *)
(***************************************************************************)
\* The latest call on the wrapper returned what the instance returns from it.
ReturnsInstanceResult ==
    w_call # << >> => w_ret = InstanceReturns(w_inst, w_call[Len(w_call)])

\* C26 as stated: every call of a Widget capability on the wrapper (mount, update,
\* handle_event, render, render_focused, preferred_size, needs_update, unmount) has
\* reached the instance as the same capability with the same arguments, and the
\* wrapper returned the instance's result.
C26_AsStated ==
    /\ w_seen = w_call
    /\ ReturnsInstanceResult

NotPreferredSize(call) == call.what # "preferred_size"

\* The seven capabilities other than preferred_size are forwarded with their
\* arguments and the instance's result comes back; preferred_size never reaches the
\* instance and answers None.
C26_ExceptPreferredSize ==
    /\ w_seen = SelectSeq(w_call, NotPreferredSize)
    /\ w_call # << >> =>
          w_ret = IF NotPreferredSize(w_call[Len(w_call)])
                  THEN InstanceReturns(w_inst, w_call[Len(w_call)])
                  ELSE <<"None">>

(***************************************************************************)
(* C27: what every iteration of the main loop does.                        *)
(***************************************************************************)
\* The last iteration went round to the top of the loop again.
FrameDone == f_steps # << >> /\ f_pc = "loop"

\* A tick interval has gone by since last_tick.
TickDue == f_pc = "loop" /\ f_elapsed >= TickRate

IsFrameStep(s) == s \in {"render", "poll", "check_for_changes", "update"}

Updated == f_steps # << >> /\ f_steps[Len(f_steps)] = "update"

\* Render, poll, the hot-reload check, in this order, then the update exactly when
\* the tick interval had elapsed (after it last_tick is reset).
FrameInOrder ==
    /\ SelectSeq(f_steps, IsFrameStep) \in
          { <<"render", "poll", "check_for_changes">>,
            <<"render", "poll", "check_for_changes", "update">> }
    /\ ~TickDue

ReadContinueKey == f_key \in {"ctrl_r", "tab"}

\* C27 as stated: every iteration that does not quit renders, polls, runs the
\* hot-reload check and, when the tick interval has elapsed, updates the widgets,
\* whichever key was read; hence an update eventually follows every elapsed tick.
C27_AsStated ==
    /\ [](FrameDone => FrameInOrder)
    /\ (TickDue ~> (Updated \/ f_pc # "loop"))

\* The iterations that read Ctrl+R or Tab end at `continue` after the key's handler:
\* no hot-reload check and no update, whatever the clock says. Every other iteration
\* that goes round is as described, and the update follows an elapsed tick once
\* a poll returns anything else.
C27_ExceptContinue ==
    /\ []((FrameDone /\ ~ReadContinueKey) => FrameInOrder)
    /\ []((FrameDone /\ ReadContinueKey) =>
             \A i \in 1..Len(f_steps) : f_steps[i] \notin {"check_for_changes", "update"})
    /\ ([]<>(~ReadContinueKey) => (TickDue ~> (Updated \/ f_pc # "loop")))

(***************************************************************************)
(* C30: a hot-reload that succeeds after one that failed.                  *)
(***************************************************************************)
\* A successful hot-reload of the plugin whose hot-reload, the step before, failed
\* after the teardown of its widget at index p_op.idx.
ReloadAfterFailure ==
    /\ p_op.op = "reload" /\ p_op.idx # 0 /\ p_op.result[1] = "Err"
    /\ ReloadStep
    /\ p_op'.stem = p_op.stem
    /\ p_op'.result[1] = "Ok"

IsStandIn(c) == c.name = "placeholder" /\ ~c.widget.plugin

\* C30 as stated: when a hot-reload of a plugin fails and a later one succeeds, the
\* new instance's widget is at the index the widget had before the failure, the
\* list is as long as before the failure, and no stand-in is left in it.
C30_AsStated ==
    [][ReloadAfterFailure =>
          /\ Len(p_widgets') = Len(p_widgets)
          /\ p_widgets'[p_op.idx].widget = PluginWidget(p_next')
          /\ \A i \in 1..Len(p_widgets') : ~IsStandIn(p_widgets'[i])]_vars

\* What the second reload does: it finds no container of the plugin's name (the
\* slot is named "placeholder"), so the new container goes to the end of the list,
\* one longer now, and the stand-in stays in the slot.
C30_Computed ==
    [][ReloadAfterFailure =>
          /\ p_op'.idx = 0
          /\ Len(p_widgets') = Len(p_widgets) + 1
          /\ \A i \in 1..Len(p_widgets) : p_widgets'[i].widget = p_widgets[i].widget
          /\ IsStandIn(p_widgets'[p_op.idx])
          /\ p_widgets'[Len(p_widgets')].widget = PluginWidget(p_next')]_vars

(***************************************************************************)
(* C31: one container per name, one live instance per plugin file.         *)
(***************************************************************************)
NamesOf(list) == {list[i].name : i \in 1..Len(list)}
NameCount(list, name) == Cardinality({i \in 1..Len(list) : list[i].name = name})

\* The instances in the live list that were opened from file stem.
LiveFrom(stem) == {h \in InList(p_widgets) : p_file[h] = stem}


\* The dashboard names no widget twice.
DistinctConfig == \A i, j \in 1..Len(p_config) : i # j => p_config[i] # p_config[j]

\* C31 as stated: after the initial load and any hot-reloads, of a dashboard that
\* names no widget twice, the live list holds at most one container per name and at
\* most one live instance per plugin file, also when a file's stem differs from the
\* name its library reports.
C31_AsStated ==
    (p_phase = "running" /\ DistinctConfig) =>
        /\ \A name \in NamesOf(p_widgets) : NameCount(p_widgets, name) =< 1
        /\ \A stem \in EventStems : Cardinality(LiveFrom(stem)) =< 1

\* Every plugin widget of the list is named as the file it was opened from.
NamedAsFile ==
    \A i \in 1..Len(p_widgets) :
        p_widgets[i].widget.plugin => p_widgets[i].name = p_file[p_widgets[i].widget.h]

OnePerNameAndFile ==
    /\ \A name \in NamesOf(p_widgets) : NameCount(p_widgets, name) =< 1
    /\ \A stem \in EventStems : Cardinality(LiveFrom(stem)) =< 1

\* While every library reports its file's stem as its name and no stand-in is in
\* the list, a hot-reload adds no second container of a name and no second instance
\* of a file.
C31_WhenNamesAgree ==
    [][(/\ ReloadStep
        /\ p_op'.result[1] = "Ok" => p_op'.lib.name = p_op'.stem
        /\ \A i \in 1..Len(p_widgets) : ~IsStandIn(p_widgets[i])
        /\ NamedAsFile
        /\ OnePerNameAndFile)
       => (NamedAsFile' \/ p_op'.result[1] = "Err") /\ OnePerNameAndFile']_vars

(***************************************************************************)
(* C32: a config reload with the configuration unchanged.                  *)
(***************************************************************************)
NameSeq(list) == [i \in 1..Len(list) |-> list[i].name]

\* Ctrl+R with reload_dashboard returning Ok for the configuration in use.
SameConfigReload ==
    /\ p_reloads' = p_reloads + 1
    /\ p_op'.op = "config_reload" /\ p_op'.result[1] = "Ok"
    /\ p_config' = p_config

\* C32 as stated: a config reload with the configuration unchanged gives a live list
\* with the same widget names in the same order as before it, the widgets of plugins
\* loaded at startup included.
C32_AsStated ==
    [][SameConfigReload => NameSeq(p_widgets') = NameSeq(p_widgets)]_vars

IsBuiltin(c) == ~c.widget.plugin /\ ~IsStandIn(c)

\* What the reload returns: the names of the configuration that have a factory, in
\* order, and no plugin widget at all, since the registry gave each of them away when
\* it was created. A list of factory-made widgets only is reproduced.
C32_FactoryWidgetsOnly ==
    [][SameConfigReload =>
          /\ \A i \in 1..Len(p_widgets) : p_widgets[i].widget.plugin =>
                 \A j \in 1..Len(p_widgets') : p_widgets'[j].widget # p_widgets[i].widget
          /\ (\A i \in 1..Len(p_widgets) : IsBuiltin(p_widgets[i]))
                 => NameSeq(p_widgets') = NameSeq(p_widgets)]_vars

(***************************************************************************)
(* C33: Tab and the focus index.                                           *)
(***************************************************************************)
\* An iteration of the main loop that reads a Tab press.
TabFrame == f_pc = "loop" /\ f_key' = "tab"

FocusInRange == f_widgets > 0 => f_focused < f_widgets

\* C33 as stated: in every state of the host, the list empty or not, a Tab press
\* completes without fault and moves the focus to (focus + 1) mod len(widgets); and
\* the focus index stays below the length of a non-empty list.
C33_AsStated ==
    /\ [][TabFrame =>
            /\ f_pc' = "loop"
            /\ f_widgets > 0 => f_focused' = (f_focused + 1) % f_widgets]_vars
    /\ []FocusInRange

\* With at least one widget Tab moves the focus round and the index stays in range;
\* with none, the remainder by widgets.len() == 0 panics and the host is gone.
C33_WithWidgets ==
    /\ [][TabFrame =>
            IF f_widgets > 0
            THEN f_pc' = "loop" /\ f_focused' = (f_focused + 1) % f_widgets
            ELSE f_pc' = "panicked"]_vars
    /\ []FocusInRange

(***************************************************************************)
(* C34: a `*` before the pattern's last segment.                           *)
(***************************************************************************)
\* The pattern's last segment is not `*`: whatever `*` segments it has are non-final.
StarsNonFinal(P) == LET pp == Split(P) IN pp[Len(pp)] # Star

\* C34 as stated: a pattern whose `*` segments are all non-final matches a topic
\* only when topic and pattern are the identical string.
C34_AsStated ==
    (m_result # << >> /\ StarsNonFinal(m_pattern)) =>
        (m_result[1] = (m_topic = m_pattern))

\* C34 amended: a `*` before the last segment stands for exactly one topic segment,
\* whatever it is: such a pattern matches a topic iff both have the same number of
\* segments and every segment of the pattern other than `*` equals the topic's
\* segment at its position.
C34_Amended ==
    (m_result # << >> /\ StarsNonFinal(m_pattern)) =>
        LET tp == Split(m_topic)
            pp == Split(m_pattern)
        IN  m_result[1] = (/\ Len(tp) = Len(pp)
                           /\ \A i \in 1..Len(pp) : pp[i] # Star => tp[i] = pp[i])

\* topic_matches("b.a", "*.a") has been computed and is true.
C34_Witness ==
    /\ m_topic = <<"b", ".", "a">>
    /\ m_pattern = <<"*", ".", "a">>
    /\ m_result = <<TRUE>>

(***************************************************************************)
(* C35: the 16-bit arithmetic of the layout engine.                        *)
(***************************************************************************)
Calculated == l_result # << >>

\* The area ends within the 16-bit coordinate range.
AreaFits == l_area.x + l_area.width =< U16 - 1 /\ l_area.y + l_area.height =< U16 - 1

\* C35 as stated: for an area with x + width <= 65535 and y + height <= 65535 and
\* items with 16-bit constraint values, no product or sum of split_horizontal and
\* split_vertical (total x percentage, remaining x weight, the sum of the weights,
\* the distributed total, the running offset) leaves 0..65535.
C35_AsStated == (Calculated /\ AreaFits) => NoOverflow

RECURSIVE FlexWeights(_)
\* The weights of the Flex constraints of a list of items and of the layouts nested
\* in it.
FlexWeights(items) ==
    UNION { IF items[i].item = "Nested" THEN FlexWeights(items[i].items)
            ELSE IF items[i].kind = "Flex" THEN {items[i].v} ELSE {} :
            i \in 1..Len(items) }

\* An area that leaves room: 100 times its larger side and each flex weight times it
\* fit 16 bits, and so does its far edge with one more cell per item and level.
AreaLeavesRoom ==
    LET side == Max2(l_area.width, l_area.height)
        slack == MaxDepth * MaxItems
    IN  /\ side * 100 < U16
        /\ \A v \in FlexWeights(l_layout.items) : side * v < U16
        /\ l_area.x + l_area.width + slack < U16
        /\ l_area.y + l_area.height + slack < U16

\* With that room nothing overflows.
C35_WithRoom == (Calculated /\ AreaLeavesRoom) => NoOverflow

(***************************************************************************)
(* C36: a hot-reload that finds no live widget of the file's name.         *)
(***************************************************************************)
\* A successful hot-reload that found no container named as the changed file.
FirstTimeLoad == ReloadStep /\ p_op'.idx = 0 /\ p_op'.result[1] = "Ok"

\* One container more, at the end, mounted; the others as they were; no unmount hook
\* and no destroy.
AppendedAndMounted ==
    /\ Len(p_widgets') = Len(p_widgets) + 1
    /\ p_widgets'[Len(p_widgets')].widget = PluginWidget(p_next')
    /\ p_widgets'[Len(p_widgets')].mounted
    /\ Count(p_trace', "on_mount", p_next') = 1
    /\ \A i \in 1..Len(p_widgets) : p_widgets'[i] = p_widgets[i]
    /\ \A k \in 1..Len(p_trace') : p_trace'[k][1] \notin {"on_unmount", "destroy"}

\* C36 as stated: when no live widget has the name derived from the changed file, a
\* successful reload appends exactly one container at the end of the list and mounts
\* it; every existing container keeps its index, identity and mounted state, and no
\* unmount or destroy is invoked.
C36_AsStated == [][FirstTimeLoad => AppendedAndMounted]_vars

\* The same when the library reports the file's stem as its name.
C36_WhenNamesAgree ==
    [][(FirstTimeLoad /\ p_op'.lib.name = p_op'.stem) => AppendedAndMounted]_vars

(***************************************************************************)
(* C37: hot-reload and the built-in widgets.                               *)
(***************************************************************************)
\* C37 as stated: a hot-reload, whatever the changed file's name, leaves every
\* container of the live list that holds a built-in widget in its place, as it was.
C37_AsStated ==
    [][ReloadStep =>
          \A i \in 1..Len(p_widgets) :
              ~p_widgets[i].widget.plugin =>
                  (Len(p_widgets') >= i /\ p_widgets'[i].name = p_widgets[i].name
                   /\ ~p_widgets'[i].widget.plugin)]_vars

\* A reload of a file whose stem is no name of the live list touches no built-in
\* widget; one whose stem is the name of a container replaces that container, whatever
\* made its widget.
C37_ByNameOnly ==
    [][ReloadStep =>
          /\ p_op'.idx # 0 =>
                 /\ p_widgets[p_op'.idx].name = p_op'.stem
                 /\ p_widgets'[p_op'.idx] # p_widgets[p_op'.idx]
          /\ \A i \in 1..Len(p_widgets) :
                 (i # p_op'.idx /\ ~p_widgets[i].widget.plugin) =>
                     p_widgets'[i].widget = p_widgets[i].widget
                     /\ p_widgets'[i].name = p_widgets[i].name]_vars

(***************************************************************************)
(* C38: a config reload that fails.                                        *)
(***************************************************************************)
\* Ctrl+R with reload_dashboard returning Err.
FailedConfigReload ==
    /\ p_reloads' = p_reloads + 1
    /\ p_op'.op = "config_reload" /\ p_op'.result[1] = "Err"

\* An iteration of the main loop that read Ctrl+R and did not replace the widgets.
FailedReloadFrame ==
    /\ f_pc = "loop" /\ f_key' = "ctrl_r"
    /\ \A k \in 1..Len(f_steps') : f_steps'[k] # "replace_widgets"

\* C38: a config reload that fails leaves the live list with every container's
\* mounted state, the layout, the registry and the plugin bookkeeping as they were,
\* invokes no mount or unmount hook (nothing is created or destroyed either), and
\* leaves the focus index and the length of the list alone.
C38_FailedReloadKeepsAll ==
    /\ [][FailedConfigReload =>
            /\ p_widgets' = p_widgets
            /\ p_config' = p_config
            /\ p_registry' = p_registry
            /\ p_plugins' = p_plugins
            /\ p_phase' = "running"
            /\ p_trace' = << >>
            /\ p_mounted' = p_mounted /\ p_destroyed' = p_destroyed]_vars
    /\ [][FailedReloadFrame =>
            f_focused' = f_focused /\ f_widgets' = f_widgets /\ f_pc' = "loop"]_vars

\* A config reload has failed with a mounted plugin widget in the live list.
C38_Witness ==
    /\ p_op.op = "config_reload" /\ p_op.result[1] = "Err"
    /\ \E i \in 1..Len(p_widgets) : p_widgets[i].widget.plugin /\ p_widgets[i].mounted

(***************************************************************************)
(* C39: which watcher events reload a plugin.                              *)
(***************************************************************************)
\* A create or modify event for a path with the library extension.
Reloadable(event) ==
    event.kind \in {"modify", "create"} /\ event.path.ext = dll_extension

\* C39: check_for_changes reloads only on a create or modify event for a path with
\* the platform's library extension (then the plugin named by the file's stem);
\* an event of another kind, a watcher error and another path leave the live list,
\* the plugin bookkeeping and the registry as they were and call nothing; and
\* after a failed reload the events that follow are still handled.
C39_OnlyReloadableEvents ==
    [][\A event \in WatcherEvents :
           check_for_changes(event) =>
               /\ Reloadable(event) <=> p_op'.op = "reload"
               /\ Reloadable(event) => p_op'.stem = extract_plugin_name(event.path)
               /\ ~Reloadable(event) =>
                      /\ p_widgets' = p_widgets
                      /\ p_plugins' = p_plugins
                      /\ p_registry' = p_registry
                      /\ p_trace' = << >>
               /\ p_phase' = "running" /\ p_watcher' = "live"]_vars

\* An event of another kind has been skipped after a reload that failed and left its
\* stand-in in the list.
C39_Witness ==
    /\ p_op.op = "event" /\ p_op.result[2] = "remove"
    /\ p_reloads = 2
    /\ \E i \in 1..Len(p_widgets) : IsStandIn(p_widgets[i])

(***************************************************************************)
(* C40: the flattened widget items and the leaves of the runtime tree      *)
(***************************************************************************)
\* The Constraint leaves of a runtime tree's items, depth first, left to right.
RECURSIVE ConstraintLeaves(_)
ConstraintLeaves(items) ==
    IF items = << >> THEN << >>
    ELSE (IF Head(items).item = "Constraint" THEN <<Head(items)>>
          ELSE ConstraintLeaves(Head(items).items))
         \o ConstraintLeaves(Tail(items))

Converted == g_flat # << >> /\ g_layout # << >>

\* C40: for every configuration layout tree, flatten_layout_items returns Widget
\* items only, as many as the runtime tree that to_layout builds from the same
\* configuration has Constraint leaves, and in the leaves' depth-first left-to-right
\* order: the i-th leaf is the constraint of the i-th item returned.
C40_FlatMatchesLeaves ==
    Converted =>
        LET flat == g_flat[1]
            leaves == ConstraintLeaves(g_layout[1].items)
        IN /\ \A i \in 1..Len(flat) : flat[i].item = "Widget"
           /\ Len(flat) = Len(leaves)
           /\ \A i \in 1..Len(flat) : leaves[i] = to_layout_item(flat[i])

\* C40's case: a nested layout of two widgets followed by a widget of the top level,
\* the three of them with different constraints.
C40_Witness ==
    /\ Converted
    /\ Len(g_config.items) = 2
    /\ g_config.items[1].item = "Layout" /\ Len(g_config.items[1].items) = 2
    /\ g_config.items[2].item = "Widget"
    /\ Len(g_flat[1]) = 3
    /\ \A i, j \in 1..3 : i # j => to_layout_item(g_flat[1][i]) # to_layout_item(g_flat[1][j])

====
